---- MODULE Spec2Model ----
(***************************************************************************)
(* State-machine model of the spawner service                              *)
(* (src/pkg/service/service.go): the provider dispatcher, the credential    *)
(* store handlers, and the AWS controller's cluster and node-group          *)
(* lifecycle against the EKS, IAM and Kubernetes APIs.                      *)
(*                                                                          *)
(* Every request runs in its own process p \in Procs.  One action is one    *)
(* vendor call together with the handler code that runs up to the next      *)
(* vendor call or the return.  The vendor (EKS, IAM) is the shared state.   *)
(*                                                                          *)
(* A Go panic ends the request with resp.kind = "panic" (nothing is         *)
(* returned to the caller).  A panic that takes the whole server down       *)
(* leaves every other request where it stands, which every behaviour below  *)
(* already allows, since no request is ever forced to take its next step.   *)
(***************************************************************************)
EXTENDS Integers, Sequences, FiniteSets, TLC

VARIABLES
    clusters,    \* EKS: cluster key -> vendor status ("NotFound" when absent)
    nodegroups,  \* EKS: cluster key -> sequence of node groups, in creation order
    iam,         \* IAM: the node-group role; exists and attached managed policies
    pc,          \* per request: position in the handler
    req,         \* per request: the request message
    loc,         \* per request: the handler's local variables
    resp,        \* per request: what the handler returned
    calls,       \* per request: the vendor calls it has issued (test-double log)
    overlap,     \* history: per request, the requests in flight when it arrived
    secrets      \* secret backend: credential key -> stored credential (Nil when absent)

vars == <<clusters, nodegroups, iam, pc, req, loc, resp, calls, overlap, secrets>>

------------------------------------------------------------------------------
(* Bounds *)

NumProcs == 2

Procs == 1..NumProcs

------------------------------------------------------------------------------
(* Inputs and vendor constants *)

Providers == {"aws"}

Regions == {"us-east-1", "eu-west-1"}

\* Cluster names a caller may give; "" is "no name given".
ClusterNameInputs == {"", "c1"}

ErrCodeResourceNotFoundException == "ResourceNotFoundException"

\* Any other vendor failure (throttling, access denied, server fault, ...).
ErrCodeServerException == "ServerException"

ERR_NODEGROUP_EXIST == "nodegroup already exist"

ERR_NO_NODEGROUP == "no nodegroup exist in cluster"

ErrSession == "session error"

\* EKS cluster life cycle as the vendor reports it.
ClusterStatuses == {"CREATING", "ACTIVE", "DELETING", "FAILED"}

\* Mutant: the format arguments are swapped.
DefaultClusterName_Swapped(provider, region) == region \o "-" \o provider

\* fmt.Sprintf("%s-%s", req.Provider, req.Region)
DefaultClusterName(provider, region) == provider \o "-" \o region

\* clusterName = req.ClusterName, or the derived default when it is empty.
ClusterNameOf(name, provider, region) ==
    IF Len(name) = 0 THEN DefaultClusterName(provider, region) ELSE name

ClusterNames ==
    (ClusterNameInputs \ {""})
        \cup {DefaultClusterName(pr, r) : pr \in Providers, r \in Regions}

\* EKS clients are bound to a region: a cluster is identified by region and name.
ClusterKeys == Regions \X ClusterNames

\* The one cluster that may exist before the first request (created by an
\* earlier run of the service), in any state of its life cycle.
PreExistingKey == <<"us-east-1", "c1">>

------------------------------------------------------------------------------
(* Values *)

\* A Go pointer is a sequence of length 0 (nil) or 1.
Nil == << >>

Ptr(v) == <<v>>

NoNodeSpec ==
    [name |-> "", instance |-> "", diskSize |-> 0, gpuEnabled |-> FALSE,
     labels |-> [k \in {} |-> ""]]

NoReq ==
    [op |-> "", provider |-> "", region |-> "", clusterName |-> "",
     nodeSpec |-> NoNodeSpec, account |-> "", cred |-> Nil]

NoResp == [kind |-> "none", body |-> Nil, err |-> ""]

\* The handler's locals before it has run.
NoLoc ==
    [clusterName |-> "", cluster |-> Nil, err |-> "",
     defaultNode |-> Nil, nodeRole |-> Nil, newRole |-> FALSE, attached |-> 0,
     newNodeGroupInput |-> Nil,
     listed |-> << >>, ci |-> 0, ngs |-> << >>, ni |-> 0, nodes |-> << >>,
     clustersOut |-> << >>, result |-> NoResp]

\* Response messages (pb.ClusterResponse, pb.ClusterDeleteResponse, ...).
NoBody ==
    [clusterName |-> "", error |-> "", clusters |-> << >>, status |-> "",
     account |-> "", cred |-> Nil, name |-> "", nodeSpec |-> << >>,
     token |-> "", caData |-> "", endpoint |-> ""]

\* return body, err
Return(body, err) == [kind |-> "return", body |-> body, err |-> err]

\* nil pointer dereference or failed type assertion: nothing is returned.
Panic == [kind |-> "panic", body |-> Nil, err |-> ""]

NoCalls ==
    [describeCluster |-> << >>, createCluster |-> << >>, deleteCluster |-> << >>,
     listClusters |-> << >>, listNodegroups |-> << >>, describeNodegroup |-> << >>,
     getRole |-> << >>, createRole |-> << >>, attachPolicy |-> << >>,
     createNodegroup |-> << >>, deleteNodegroup |-> << >>,
     controller |-> << >>, writeCredentials |-> << >>, getCredentials |-> << >>,
     getK8sClient |-> << >>, listNodes |-> << >>, getKubeConfig |-> << >>]

InFlight(p) == pc[p] \notin {"idle", "done"}

\* A request arrives.  Requests are numbered in their order of arrival (the
\* processes are interchangeable), and the history variable records which
\* requests were in flight at that moment.
Arrive(p) ==
    /\ p > 1 => pc[p - 1] # "idle"
    /\ overlap' = [overlap EXCEPT ![p] = {q \in Procs \ {p} : InFlight(q)}]

------------------------------------------------------------------------------
(* The vendor: EKS cluster API *)

StatusOf(key) == IF key \in DOMAIN clusters THEN clusters[key] ELSE "NotFound"

\* eks.DescribeCluster: the cluster when it exists, ResourceNotFoundException
\* when it does not, or any other failure.  getClusterSpec returns
\* (resp.Cluster, err), and resp.Cluster is nil whenever err is not.
getClusterSpec(key) ==
    (IF StatusOf(key) = "NotFound"
       THEN {[cluster |-> Nil, err |-> ErrCodeResourceNotFoundException]}
       ELSE {[cluster |-> Ptr([name |-> key[2], status |-> StatusOf(key)]),
              err |-> ""]})
    \cup {[cluster |-> Nil, err |-> ErrCodeServerException]}

\* The vendor moves a cluster through its life cycle on its own.
VendorProgress(key) ==
    /\ \/ /\ clusters[key] = "CREATING"
          /\ \E s \in {"ACTIVE", "FAILED"} :
                clusters' = [clusters EXCEPT ![key] = s]
       \/ /\ clusters[key] = "DELETING"
          /\ \E s \in {"NotFound", "FAILED"} :
                clusters' = [clusters EXCEPT ![key] = s]
    /\ UNCHANGED <<nodegroups, iam, pc, req, loc, resp, calls, overlap, secrets>>

------------------------------------------------------------------------------
(* AWSController.CreateCluster *)

\* Mutant: the create branch is taken whatever the describe call returned.
NeedsCreate_Always(err) == TRUE

\* Mutant: the create branch is taken on every describe error.
NeedsCreate_AnyError(err) == err # ""

\* if err != nil { if err.(awserr.Error).Code() == ErrCodeResourceNotFoundException
NeedsCreate(err) == err # "" /\ err = ErrCodeResourceNotFoundException

\* return &pb.ClusterResponse{ClusterName: *cluster.Name}, nil
ClusterResponse(cluster) ==
    IF cluster = Nil
      THEN Panic
      ELSE Return(Ptr([NoBody EXCEPT !.clusterName = cluster[1].name]), "")

\* The name the describe call is made with.
DescribeTarget(p) == loc[p].clusterName

\* The request arrives; the name is derived and the session opened.
CreateCluster(p) ==
    /\ pc[p] = "idle"
    /\ \E provider \in Providers, region \in Regions,
          name \in ClusterNameInputs, sessionOk \in BOOLEAN :
         /\ req' = [req EXCEPT ![p] =
                      [NoReq EXCEPT !.op = "CreateCluster", !.provider = provider,
                                    !.region = region, !.clusterName = name]]
         /\ loc' = [loc EXCEPT ![p] =
                      [NoLoc EXCEPT !.clusterName =
                                       ClusterNameOf(name, provider, region)]]
         /\ IF sessionOk
              THEN /\ pc' = [pc EXCEPT ![p] = "CC_getClusterSpec"]
                   /\ UNCHANGED resp
              ELSE /\ pc' = [pc EXCEPT ![p] = "done"]
                   /\ resp' = [resp EXCEPT ![p] = Return(Nil, ErrSession)]
    /\ Arrive(p)
    /\ UNCHANGED <<clusters, nodegroups, iam, calls, secrets>>

\* cluster, err := getClusterSpec(...) and the branch on its outcome.
CreateCluster_getClusterSpec(p) ==
    /\ pc[p] = "CC_getClusterSpec"
    /\ \E out \in getClusterSpec(<<req[p].region, DescribeTarget(p)>>) :
         /\ calls' = [calls EXCEPT ![p].describeCluster =
                        Append(@, [name |-> DescribeTarget(p), err |-> out.err,
                                   status |-> IF out.cluster = Nil THEN ""
                                              ELSE out.cluster[1].status])]
         /\ loc' = [loc EXCEPT ![p].cluster = out.cluster, ![p].err = out.err]
         /\ IF NeedsCreate(out.err)
              THEN /\ pc' = [pc EXCEPT ![p] = "CC_createClusterInternal"]
                   /\ UNCHANGED resp
              ELSE /\ pc' = [pc EXCEPT ![p] = "done"]
                   /\ resp' = [resp EXCEPT ![p] = ClusterResponse(out.cluster)]
    /\ UNCHANGED <<clusters, nodegroups, iam, req, overlap, secrets>>

\* svc.createClusterInternal: bootstraps the cluster role, then issues
\* eks.CreateCluster.  The vendor accepts the create only when no cluster of
\* that name exists in the region.
createClusterInternal(p, key) ==
    \/ \* the role bootstrap fails: no create call is made
       /\ loc' = [loc EXCEPT ![p].cluster = Nil, ![p].err = ErrCodeServerException]
       /\ UNCHANGED <<clusters, calls>>
    \/ \* the create call is made and the vendor rejects it
       /\ loc' = [loc EXCEPT ![p].cluster = Nil, ![p].err = ErrCodeServerException]
       /\ calls' = [calls EXCEPT ![p].createCluster = Append(@, key[2])]
       /\ UNCHANGED clusters
    \/ \* the create call is made and the vendor starts creating the cluster
       /\ StatusOf(key) = "NotFound"
       /\ key \in DOMAIN clusters
       /\ loc' = [loc EXCEPT ![p].cluster = Ptr([name |-> key[2], status |-> "CREATING"]),
                             ![p].err = ""]
       /\ calls' = [calls EXCEPT ![p].createCluster = Append(@, key[2])]
       /\ clusters' = [clusters EXCEPT ![key] = "CREATING"]

CreateCluster_createClusterInternal(p) ==
    /\ pc[p] = "CC_createClusterInternal"
    /\ createClusterInternal(p, <<req[p].region, loc[p].clusterName>>)
    /\ pc' = [pc EXCEPT ![p] = "done"]
    /\ resp' = [resp EXCEPT ![p] =
                  IF loc'[p].err # "" THEN Return(Nil, loc'[p].err)
                  ELSE ClusterResponse(loc'[p].cluster)]
    /\ UNCHANGED <<nodegroups, iam, req, overlap, secrets>>

------------------------------------------------------------------------------
(* AWSController.DeleteCluster *)

\* Mutant: a failed delete returns the error without a response.
DeleteFailed_NoResponse(e) == Return(Nil, e)

\* return &pb.ClusterDeleteResponse{Error: err.Error()}, err
\* (and the same with pb.NodeDeleteResponse in DeleteNode)
DeleteFailed(e) == Return(Ptr([NoBody EXCEPT !.error = e]), e)

DeleteCluster(p) ==
    /\ pc[p] = "idle"
    /\ \E region \in Regions, name \in ClusterNames, sessionOk \in BOOLEAN :
         /\ req' = [req EXCEPT ![p] =
                      [NoReq EXCEPT !.op = "DeleteCluster", !.provider = "aws",
                                    !.region = region, !.clusterName = name]]
         /\ loc' = [loc EXCEPT ![p] = [NoLoc EXCEPT !.clusterName = name]]
         /\ IF sessionOk
              THEN /\ pc' = [pc EXCEPT ![p] = "DC_DeleteCluster"]
                   /\ UNCHANGED resp
              ELSE /\ pc' = [pc EXCEPT ![p] = "done"]
                   /\ resp' = [resp EXCEPT ![p] = Return(Nil, ErrSession)]
    /\ Arrive(p)
    /\ UNCHANGED <<clusters, nodegroups, iam, calls, secrets>>

\* The vendor accepts the delete of an existing cluster without node groups.
DeleteCluster_DeleteCluster(p) ==
    /\ pc[p] = "DC_DeleteCluster"
    /\ LET key == <<req[p].region, req[p].clusterName>> IN
         /\ calls' = [calls EXCEPT ![p].deleteCluster = Append(@, key[2])]
         /\ \/ /\ StatusOf(key) \in {"CREATING", "ACTIVE", "FAILED"}
               /\ nodegroups[key] = << >>
               /\ clusters' = [clusters EXCEPT ![key] = "DELETING"]
               /\ resp' = [resp EXCEPT ![p] = Return(Ptr(NoBody), "")]
            \/ \E e \in {ErrCodeServerException} \cup
                        (IF StatusOf(key) = "NotFound"
                           THEN {ErrCodeResourceNotFoundException} ELSE {}) :
                 /\ resp' = [resp EXCEPT ![p] = DeleteFailed(e)]
                 /\ UNCHANGED clusters
    /\ pc' = [pc EXCEPT ![p] = "done"]
    /\ UNCHANGED <<nodegroups, iam, req, loc, overlap, secrets>>

------------------------------------------------------------------------------
(* Node groups: inputs and vendor constants *)

AWS_NODE_GROUP_ROLE_NAME == "netbook-AWS-NodeGroupInstanceRole-CAFE"

EKS_WORKER_NODE_POLICY_ARN == "arn:aws:iam::aws:policy/AmazonEKSWorkerNodePolicy"

EKS_EC2_CONTAINER_RO_POLICY_ARN ==
    "arn:aws:iam::aws:policy/AmazonEC2ContainerRegistryReadOnly"

EKS_CNI_POLICY_ARN == "arn:aws:iam::aws:policy/AmazonEKS_CNI_Policy"

\* The managed policies of the node-group role, in the order they are attached.
NodeGroupPolicies ==
    <<EKS_WORKER_NODE_POLICY_ARN, EKS_EC2_CONTAINER_RO_POLICY_ARN, EKS_CNI_POLICY_ARN>>

NodeRoleArn == "arn:aws:iam::role/" \o AWS_NODE_GROUP_ROLE_NAME

\* Label keys and values of the constants package.
CREATOR_LABEL == "creator"

NODE_NAME_LABEL == "node-name"

NODE_LABEL_SELECTOR_LABEL == "node-label-selector"

INSTANCE_LABEL == "instance-type"

SPAWNER_SERVICE_LABEL == "spawner-service"

SystemLabelKeys ==
    {CREATOR_LABEL, NODE_NAME_LABEL, NODE_LABEL_SELECTOR_LABEL, INSTANCE_LABEL, "type"}

\* The cluster AddNode and DeleteNode requests are made for.
NodeCluster == <<"us-east-1", "c1">>

\* cluster.ResourcesVpcConfig.SubnetIds of that cluster.
ClusterSubnetIds == <<"subnet-a", "subnet-b">>

Labels(a, b, c) ==
    [k \in {x \in {"a", "b", "c"} :
               (x = "a" /\ a # "") \/ (x = "b" /\ b # "") \/ (x = "c" /\ c # "")}
       |-> IF k = "a" THEN a ELSE IF k = "b" THEN b ELSE c]

\* The node specs callers ask for.
NodeSpecs ==
    { [name |-> "cpu-pool", instance |-> "t3.medium", diskSize |-> 20,
       gpuEnabled |-> FALSE, labels |-> Labels("", "", "")],
      [name |-> "gpu-pool", instance |-> "p3.2xlarge", diskSize |-> 50,
       gpuEnabled |-> TRUE, labels |-> Labels("", "9", "3")] }

\* A node group made outside the service (console, eksctl).
ForeignNodegroup ==
    [name |-> "ng-default", amiType |-> "AL2_x86_64", capacityType |-> "SPOT",
     nodeRole |-> "arn:aws:iam::role/eksctl-nodegroup", instanceTypes |-> <<"m5.large">>,
     diskSize |-> 80, releaseVersion |-> "1.21.5-20220123",
     labels |-> Labels("1", "2", ""), subnets |-> <<"subnet-c">>,
     scaling |-> [desired |-> 3, min |-> 1, max |-> 5]]

NodeGroupNames == {ns.name : ns \in NodeSpecs} \cup {ForeignNodegroup.name}

\* The release version the vendor gives a node group created without one.
DefaultReleaseVersion == "1.21.5-20220216"

------------------------------------------------------------------------------
(* The vendor: EKS node-group API and IAM *)

Range(seq) == {seq[i] : i \in DOMAIN seq}

NamesOf(groups) == {groups[i].name : i \in DOMAIN groups}

\* eks.ListNodegroups: the names of the cluster's node groups, in an order the
\* vendor does not specify.
ListNodegroups(key) ==
    LET names == NamesOf(nodegroups[key])
        n == Cardinality(names)
    IN {l \in [1..n -> names] : \A i \in 1..n, j \in 1..n : l[i] = l[j] => i = j}

\* eks.DescribeNodegroup: the node group of that name, Nil when there is none.
NodegroupNamed(key, name) ==
    LET hit == {i \in DOMAIN nodegroups[key] : nodegroups[key][i].name = name}
    IN IF hit = {} THEN Nil ELSE Ptr(nodegroups[key][CHOOSE i \in hit : TRUE])

\* eks.CreateNodegroup accepts an input whose required fields are set, for a
\* node-group name the cluster does not have yet, and records it.
NodegroupOf(input) ==
    [name |-> input.nodegroupName, amiType |-> input.amiType,
     capacityType |-> input.capacityType, nodeRole |-> input.nodeRole,
     instanceTypes |-> input.instanceTypes, diskSize |-> input.diskSize,
     releaseVersion |-> IF input.releaseVersion = "" THEN DefaultReleaseVersion
                        ELSE input.releaseVersion,
     labels |-> input.labels, subnets |-> input.subnets, scaling |-> input.scaling]

RemoveNamed(groups, name) ==
    LET keep == {i \in DOMAIN groups : groups[i].name # name}
        F[i \in 0..Len(groups)] ==
            IF i = 0 THEN << >>
            ELSE IF i \in keep THEN Append(F[i - 1], groups[i]) ELSE F[i - 1]
    IN F[Len(groups)]

------------------------------------------------------------------------------
(* AWSController.AddNode *)

\* map assignment: m[k] = v for every k of over
Override(base, over) ==
    [k \in (DOMAIN base) \cup (DOMAIN over) |->
        IF k \in DOMAIN over THEN over[k] ELSE base[k]]

\* for k, v := range nodeSpec.Labels { labels[k] = &v }
\* Up to Go 1.21 the loop has one variable v: every entry stored is its
\* address, and after the loop all of them read the value of the key that
\* was iterated last (map iteration order is unspecified).  From Go 1.22 on
\* (go directive >= 1.22) each iteration has its own v.  The repository's go
\* directive is not part of the sources, so both builds are outcomes.
RangeAddressOf(labels) ==
    {labels} \cup {[k \in DOMAIN labels |-> labels[last]] : last \in DOMAIN labels}

\* labels := map[string]*string{...}: the system labels of a new node group.
SystemLabels(nodeSpec) ==
    [k \in SystemLabelKeys |->
        IF k = CREATOR_LABEL THEN SPAWNER_SERVICE_LABEL
        ELSE IF k = NODE_NAME_LABEL THEN nodeSpec.name
        ELSE IF k = NODE_LABEL_SELECTOR_LABEL THEN nodeSpec.name
        ELSE IF k = INSTANCE_LABEL THEN nodeSpec.instance
        ELSE "nodegroup"]

\* Mutant: the scaling configuration of the template node group is kept.
FixedScalingConfig_Wide == [desired |-> 3, min |-> 1, max |-> 5]

FixedScalingConfig == [desired |-> 1, min |-> 1, max |-> 1]

\* Mutant: the standard image whatever the node spec asks for.
AmiTypeFor_Standard(nodeSpec) == "AL2_x86_64"

\* Choose AL2_x86_64 for non-GPU instances, AL2_x86_64_GPU for GPU instances.
AmiTypeFor(nodeSpec) == IF nodeSpec.gpuEnabled THEN "AL2_x86_64_GPU" ELSE "AL2_x86_64"

\* The inputs getNewNodeGroupSpecFromCluster can build once the role is there.
NewNodeGroupSpecFromCluster(cluster, roleArn, clusterName, nodeSpec) ==
    { [amiType |-> AmiTypeFor(nodeSpec),
       capacityType |-> "ON_DEMAND",
       nodeRole |-> roleArn,
       instanceTypes |-> <<nodeSpec.instance>>,
       clusterName |-> clusterName,
       diskSize |-> nodeSpec.diskSize,
       nodegroupName |-> nodeSpec.name,
       releaseVersion |-> "",
       labels |-> Override(SystemLabels(nodeSpec), callerLabels),
       subnets |-> cluster.subnetIds,
       scaling |-> FixedScalingConfig] : callerLabels \in RangeAddressOf(nodeSpec.labels) }

\* The inputs getNodeSpecFromDefault can build from the donor node group.
getNodeSpecFromDefault(defaultNode, clusterName, nodeSpec) ==
    { [amiType |-> defaultNode.amiType,
       capacityType |-> defaultNode.capacityType,
       nodeRole |-> defaultNode.nodeRole,
       instanceTypes |-> <<nodeSpec.instance>>,
       clusterName |-> clusterName,
       diskSize |-> nodeSpec.diskSize,
       nodegroupName |-> nodeSpec.name,
       releaseVersion |-> defaultNode.releaseVersion,
       labels |-> Override(Override(SystemLabels(nodeSpec), defaultNode.labels),
                           callerLabels),
       subnets |-> defaultNode.subnets,
       scaling |-> FixedScalingConfig] : callerLabels \in RangeAddressOf(nodeSpec.labels) }

\* return nil, err
Fail(p, err) ==
    /\ pc' = [pc EXCEPT ![p] = "done"]
    /\ resp' = [resp EXCEPT ![p] = Return(Nil, err)]

\* Mutant: the listing is not searched for the requested name.
NameTaken_Never(listing, nodeName) == FALSE

\* for _, nodeGroup := range nodeGroupList.Nodegroups { if *nodeGroup == nodeName
NameTaken(listing, nodeName) == nodeName \in Range(listing)

\* Mutant: the policies are attached whether or not the role is new.
AttachNeeded_Always(newRole) == TRUE

\* if newRole { ... attachPolicy ... }
AttachNeeded(newRole) == newRole

\* Mutant: a failed attachment is logged and the handler carries on.
AttachFailed_Ignored(err) == FALSE

\* err = svc.attachPolicy(...); if err != nil { return nil, err }
AttachFailed(err) == err # ""

\* The request arrives and the session is opened.
AddNode(p) ==
    /\ pc[p] = "idle"
    /\ \E nodeSpec \in NodeSpecs, sessionOk \in BOOLEAN :
         /\ req' = [req EXCEPT ![p] =
                      [NoReq EXCEPT !.op = "AddNode", !.provider = "aws",
                                    !.region = NodeCluster[1],
                                    !.clusterName = NodeCluster[2],
                                    !.nodeSpec = nodeSpec]]
         /\ loc' = [loc EXCEPT ![p] = [NoLoc EXCEPT !.clusterName = NodeCluster[2]]]
         /\ IF sessionOk
              THEN /\ pc' = [pc EXCEPT ![p] = "AN_ListNodegroups"]
                   /\ UNCHANGED resp
              ELSE Fail(p, ErrSession)
    /\ Arrive(p)
    /\ UNCHANGED <<clusters, nodegroups, iam, calls, secrets>>

\* getDefaultNode up to its describe call, and AddNode's branch on its errors.
\* An error that is neither ERR_NODEGROUP_EXIST nor ERR_NO_NODEGROUP matches
\* no branch: AddNode goes on to CreateNodegroup with a nil input.
AddNode_ListNodegroups(p) ==
    /\ pc[p] = "AN_ListNodegroups"
    /\ LET key == <<req[p].region, req[p].clusterName>>
           nodeName == req[p].nodeSpec.name
       IN \/ \E listing \in ListNodegroups(key) :
               /\ calls' = [calls EXCEPT ![p].listNodegroups =
                              Append(@, [cluster |-> key[2], err |-> "",
                                         listing |-> listing,
                                         existing |-> NamesOf(nodegroups[key])])]
               /\ IF Len(listing) = 0
                    THEN /\ pc' = [pc EXCEPT ![p] = "AN_getClusterSpec"]
                         /\ loc' = [loc EXCEPT ![p].err = ERR_NO_NODEGROUP]
                         /\ UNCHANGED resp
                    ELSE IF NameTaken(listing, nodeName)
                    THEN /\ Fail(p, ERR_NODEGROUP_EXIST)
                         /\ loc' = [loc EXCEPT ![p].err = ERR_NODEGROUP_EXIST]
                    ELSE /\ pc' = [pc EXCEPT ![p] = "AN_DescribeNodegroup"]
                         /\ UNCHANGED <<loc, resp>>
          \/ /\ calls' = [calls EXCEPT ![p].listNodegroups =
                            Append(@, [cluster |-> key[2], err |-> ErrCodeServerException,
                                       listing |-> << >>,
                                       existing |-> NamesOf(nodegroups[key])])]
             /\ loc' = [loc EXCEPT ![p].err = ErrCodeServerException]
             /\ pc' = [pc EXCEPT ![p] = "AN_CreateNodegroup"]
             /\ UNCHANGED resp
    /\ UNCHANGED <<clusters, nodegroups, iam, req, overlap, secrets>>

\* getDefaultNode's describe of the first listed node group, and
\* getNodeSpecFromDefault on its result.
AddNode_DescribeNodegroup(p) ==
    /\ pc[p] = "AN_DescribeNodegroup"
    /\ LET key == <<req[p].region, req[p].clusterName>>
           first == calls[p].listNodegroups[1].listing[1]
           found == NodegroupNamed(key, first)
       IN \/ /\ found # Nil
             /\ \E input \in getNodeSpecFromDefault(found[1], req[p].clusterName,
                                                    req[p].nodeSpec) :
                  loc' = [loc EXCEPT ![p].defaultNode = found, ![p].err = "",
                                     ![p].newNodeGroupInput = Ptr(input)]
             /\ calls' = [calls EXCEPT ![p].describeNodegroup =
                            Append(@, [cluster |-> key[2], name |-> first, err |-> ""])]
          \/ \E e \in {ErrCodeServerException} \cup
                      (IF found = Nil THEN {ErrCodeResourceNotFoundException} ELSE {}) :
               /\ loc' = [loc EXCEPT ![p].err = e]
               /\ calls' = [calls EXCEPT ![p].describeNodegroup =
                              Append(@, [cluster |-> key[2], name |-> first, err |-> e])]
    /\ pc' = [pc EXCEPT ![p] = "AN_CreateNodegroup"]
    /\ UNCHANGED <<clusters, nodegroups, iam, req, resp, overlap, secrets>>

\* getNewNodeGroupSpecFromCluster: cluster, err := getClusterSpec(...)
AddNode_getClusterSpec(p) ==
    /\ pc[p] = "AN_getClusterSpec"
    /\ \E out \in getClusterSpec(<<req[p].region, req[p].clusterName>>) :
         /\ calls' = [calls EXCEPT ![p].describeCluster =
                        Append(@, [name |-> req[p].clusterName, err |-> out.err,
                                   status |-> IF out.cluster = Nil THEN ""
                                              ELSE out.cluster[1].status])]
         /\ loc' = [loc EXCEPT ![p].cluster = out.cluster, ![p].err = out.err]
         /\ IF out.err # ""
              THEN Fail(p, out.err)
              ELSE /\ pc' = [pc EXCEPT ![p] = "AN_GetRole"]
                   /\ UNCHANGED resp
    /\ UNCHANGED <<clusters, nodegroups, iam, req, overlap, secrets>>

\* The rest of getNewNodeGroupSpecFromCluster once role and policies are done.
BuildFromCluster(p, newRole, attached) ==
    /\ \E input \in NewNodeGroupSpecFromCluster([subnetIds |-> ClusterSubnetIds],
                                                NodeRoleArn, req[p].clusterName,
                                                req[p].nodeSpec) :
         loc' = [loc EXCEPT ![p].newNodeGroupInput = Ptr(input), ![p].err = "",
                            ![p].nodeRole = Ptr(NodeRoleArn),
                            ![p].newRole = newRole, ![p].attached = attached]
    /\ pc' = [pc EXCEPT ![p] = "AN_CreateNodegroup"]
    /\ UNCHANGED resp

\* createRoleOrGetExisting, the lookup: an existing role is returned as it is.
AddNode_GetRole(p) ==
    /\ pc[p] = "AN_GetRole"
    /\ \/ /\ iam.exists
          /\ calls' = [calls EXCEPT ![p].getRole = Append(@, "")]
          /\ IF AttachNeeded(FALSE)
               THEN /\ pc' = [pc EXCEPT ![p] = "AN_attachPolicy"]
                    /\ loc' = [loc EXCEPT ![p].nodeRole = Ptr(NodeRoleArn)]
                    /\ UNCHANGED resp
               ELSE BuildFromCluster(p, FALSE, 0)
       \/ /\ ~iam.exists
          /\ calls' = [calls EXCEPT ![p].getRole = Append(@, "NoSuchEntity")]
          /\ pc' = [pc EXCEPT ![p] = "AN_CreateRole"]
          /\ UNCHANGED <<loc, resp>>
       \/ /\ calls' = [calls EXCEPT ![p].getRole = Append(@, ErrCodeServerException)]
          /\ loc' = [loc EXCEPT ![p].err = ErrCodeServerException]
          /\ Fail(p, ErrCodeServerException)
    /\ UNCHANGED <<clusters, nodegroups, iam, req, overlap, secrets>>

\* createRoleOrGetExisting, the creation of a role that was not found.
AddNode_CreateRole(p) ==
    /\ pc[p] = "AN_CreateRole"
    /\ \/ /\ ~iam.exists
          /\ iam' = [iam EXCEPT !.exists = TRUE]
          /\ calls' = [calls EXCEPT ![p].createRole = Append(@, "")]
          /\ IF AttachNeeded(TRUE)
               THEN /\ pc' = [pc EXCEPT ![p] = "AN_attachPolicy"]
                    /\ loc' = [loc EXCEPT ![p].nodeRole = Ptr(NodeRoleArn),
                                          ![p].newRole = TRUE]
                    /\ UNCHANGED resp
               ELSE BuildFromCluster(p, TRUE, 0)
       \/ \E e \in {ErrCodeServerException} \cup
                   (IF iam.exists THEN {"EntityAlreadyExists"} ELSE {}) :
            /\ calls' = [calls EXCEPT ![p].createRole = Append(@, e)]
            /\ loc' = [loc EXCEPT ![p].err = e]
            /\ Fail(p, e)
            /\ UNCHANGED iam
    /\ UNCHANGED <<clusters, nodegroups, req, overlap, secrets>>

\* The next svc.attachPolicy call of the three, and the check of its error.
AddNode_attachPolicy(p) ==
    /\ pc[p] = "AN_attachPolicy"
    /\ LET policy == NodeGroupPolicies[loc[p].attached + 1]
           last == loc[p].attached + 1 = Len(NodeGroupPolicies)
       IN \E err \in {"", ErrCodeServerException} :
            /\ calls' = [calls EXCEPT ![p].attachPolicy =
                           Append(@, [policy |-> policy, err |-> err])]
            /\ iam' = IF err = "" THEN [iam EXCEPT !.attached = @ \cup {policy}]
                      ELSE iam
            /\ IF AttachFailed(err)
                 THEN /\ Fail(p, err)
                      /\ loc' = [loc EXCEPT ![p].err = err]
                 ELSE IF last
                 THEN BuildFromCluster(p, loc[p].newRole, loc[p].attached + 1)
                 ELSE /\ loc' = [loc EXCEPT ![p].attached = @ + 1]
                      /\ UNCHANGED <<pc, resp>>
    /\ UNCHANGED <<clusters, nodegroups, req, overlap, secrets>>

\* out, err := client.CreateNodegroupWithContext(ctx, newNodeGroupInput)
AddNode_CreateNodegroup(p) ==
    /\ pc[p] = "AN_CreateNodegroup"
    /\ LET key == <<req[p].region, req[p].clusterName>>
           input == loc[p].newNodeGroupInput
       IN /\ calls' = [calls EXCEPT ![p].createNodegroup = Append(@, input)]
          /\ \/ /\ input # Nil
                /\ StatusOf(key) = "ACTIVE"
                /\ input[1].nodegroupName \notin NamesOf(nodegroups[key])
                /\ nodegroups' = [nodegroups EXCEPT ![key] =
                                    Append(@, NodegroupOf(input[1]))]
                /\ resp' = [resp EXCEPT ![p] = Return(Ptr(NoBody), "")]
             \/ \E e \in (IF input = Nil THEN {"InvalidParameter"}
                          ELSE {ErrCodeServerException}) :
                  /\ resp' = [resp EXCEPT ![p] = Return(Nil, e)]
                  /\ UNCHANGED nodegroups
    /\ pc' = [pc EXCEPT ![p] = "done"]
    /\ UNCHANGED <<clusters, iam, req, loc, overlap, secrets>>

------------------------------------------------------------------------------
(* AWSController.DeleteNode *)

DeleteNode(p) ==
    /\ pc[p] = "idle"
    /\ \E name \in NodeGroupNames, sessionOk \in BOOLEAN :
         /\ req' = [req EXCEPT ![p] =
                      [NoReq EXCEPT !.op = "DeleteNode", !.provider = "aws",
                                    !.region = NodeCluster[1],
                                    !.clusterName = NodeCluster[2],
                                    !.nodeSpec = [NoNodeSpec EXCEPT !.name = name]]]
         /\ loc' = [loc EXCEPT ![p] = [NoLoc EXCEPT !.clusterName = NodeCluster[2]]]
         /\ IF sessionOk
              THEN /\ pc' = [pc EXCEPT ![p] = "DN_DeleteNodegroup"]
                   /\ UNCHANGED resp
              ELSE Fail(p, ErrSession)
    /\ Arrive(p)
    /\ UNCHANGED <<clusters, nodegroups, iam, calls, secrets>>

DeleteNode_DeleteNodegroup(p) ==
    /\ pc[p] = "DN_DeleteNodegroup"
    /\ LET key == <<req[p].region, req[p].clusterName>>
           name == req[p].nodeSpec.name
       IN /\ calls' = [calls EXCEPT ![p].deleteNodegroup = Append(@, name)]
          /\ \/ /\ name \in NamesOf(nodegroups[key])
                /\ nodegroups' = [nodegroups EXCEPT ![key] = RemoveNamed(@, name)]
                /\ resp' = [resp EXCEPT ![p] = Return(Ptr(NoBody), "")]
             \/ \E e \in {ErrCodeServerException} \cup
                         (IF name \in NamesOf(nodegroups[key]) THEN {}
                          ELSE {ErrCodeResourceNotFoundException}) :
                  /\ resp' = [resp EXCEPT ![p] = DeleteFailed(e)]
                  /\ UNCHANGED nodegroups
    /\ pc' = [pc EXCEPT ![p] = "done"]
    /\ UNCHANGED <<clusters, iam, req, loc, overlap, secrets>>

------------------------------------------------------------------------------
(* AWSController.GetClusters *)

\* eks.ListClusters: the names of the region's clusters, in an order the
\* vendor does not specify.
ListClusters(region) ==
    LET names == {k[2] : k \in {x \in ClusterKeys : x[1] = region /\ StatusOf(x) # "NotFound"}}
        n == Cardinality(names)
    IN {l \in [1..n -> names] : \A i \in 1..n, j \in 1..n : l[i] = l[j] => i = j}

\* node := &pb.NodeSpec{Name: *cNodeGroup} with Instance and DiskSize filled in
\* from the details (a node group without instance types keeps Instance empty).
NodeSpecOf(name, details) ==
    [name |-> name,
     instance |-> IF details.instanceTypes # << >> THEN details.instanceTypes[1] ELSE "",
     diskSize |-> details.diskSize]

\* nodeGroupDetails, err := client.DescribeNodegroupWithContext(...); the error
\* is logged, and nodeGroupDetails.Nodegroup.InstanceTypes is read all the same:
\* Nodegroup is nil after a failed call.
DetailFailure(p, err) ==
    /\ pc' = [pc EXCEPT ![p] = "done"]
    /\ resp' = [resp EXCEPT ![p] = Panic]
    /\ UNCHANGED loc

\* resp.Clusters = append(resp.Clusters, ...) and the step to the next cluster,
\* or return &resp, nil after the last one.
AppendCluster(p, nodes) ==
    LET entry == [name |-> loc[p].listed[loc[p].ci], nodeSpec |-> nodes]
        out == Append(loc[p].clustersOut, entry)
    IN IF loc[p].ci = Len(loc[p].listed)
         THEN /\ pc' = [pc EXCEPT ![p] = "done"]
              /\ resp' = [resp EXCEPT ![p] =
                            Return(Ptr([NoBody EXCEPT !.clusters = out]), "")]
              /\ loc' = [loc EXCEPT ![p].clustersOut = out, ![p].nodes = << >>]
         ELSE /\ pc' = [pc EXCEPT ![p] = "GC_ListNodegroups"]
              /\ loc' = [loc EXCEPT ![p].clustersOut = out, ![p].nodes = << >>,
                                    ![p].ci = @ + 1, ![p].ngs = << >>, ![p].ni = 0]
              /\ UNCHANGED resp

GetClusters(p) ==
    /\ pc[p] = "idle"
    /\ \E sessionOk \in BOOLEAN :
         /\ req' = [req EXCEPT ![p] =
                      [NoReq EXCEPT !.op = "GetClusters", !.provider = "aws",
                                    !.region = NodeCluster[1]]]
         /\ loc' = [loc EXCEPT ![p] = NoLoc]
         /\ IF sessionOk
              THEN /\ pc' = [pc EXCEPT ![p] = "GC_ListClusters"]
                   /\ UNCHANGED resp
              ELSE Fail(p, ErrSession)
    /\ Arrive(p)
    /\ UNCHANGED <<clusters, nodegroups, iam, calls, secrets>>

GetClusters_ListClusters(p) ==
    /\ pc[p] = "GC_ListClusters"
    /\ \/ \E listed \in ListClusters(req[p].region) :
            /\ calls' = [calls EXCEPT ![p].listClusters =
                           Append(@, [err |-> "", listing |-> listed])]
            /\ IF listed = << >>
                 THEN /\ pc' = [pc EXCEPT ![p] = "done"]
                      /\ resp' = [resp EXCEPT ![p] = Return(Ptr(NoBody), "")]
                      /\ UNCHANGED loc
                 ELSE /\ pc' = [pc EXCEPT ![p] = "GC_ListNodegroups"]
                      /\ loc' = [loc EXCEPT ![p].listed = listed, ![p].ci = 1]
                      /\ UNCHANGED resp
       \/ /\ calls' = [calls EXCEPT ![p].listClusters =
                         Append(@, [err |-> ErrCodeServerException, listing |-> << >>])]
          /\ pc' = [pc EXCEPT ![p] = "done"]
          /\ resp' = [resp EXCEPT ![p] = Return(Ptr(NoBody), ErrCodeServerException)]
          /\ UNCHANGED loc
    /\ UNCHANGED <<clusters, nodegroups, iam, req, overlap, secrets>>

\* The node-group listing of the current cluster.  A failed listing is logged
\* and leaves no node group to go through.
GetClusters_ListNodegroups(p) ==
    /\ pc[p] = "GC_ListNodegroups"
    /\ LET key == <<req[p].region, loc[p].listed[loc[p].ci]>>
       IN \/ \E listing \in ListNodegroups(key) :
               /\ calls' = [calls EXCEPT ![p].listNodegroups =
                              Append(@, [cluster |-> key[2], err |-> "",
                                         listing |-> listing,
                                         existing |-> NamesOf(nodegroups[key])])]
               /\ IF listing = << >>
                    THEN AppendCluster(p, << >>)
                    ELSE /\ pc' = [pc EXCEPT ![p] = "GC_DescribeNodegroup"]
                         /\ loc' = [loc EXCEPT ![p].ngs = listing, ![p].ni = 1,
                                               ![p].nodes = << >>]
                         /\ UNCHANGED resp
          \/ /\ calls' = [calls EXCEPT ![p].listNodegroups =
                            Append(@, [cluster |-> key[2], err |-> ErrCodeServerException,
                                       listing |-> << >>,
                                       existing |-> NamesOf(nodegroups[key])])]
             /\ AppendCluster(p, << >>)
    /\ UNCHANGED <<clusters, nodegroups, iam, req, overlap, secrets>>

\* The detail call for the current node group of the current cluster.
GetClusters_DescribeNodegroup(p) ==
    /\ pc[p] = "GC_DescribeNodegroup"
    /\ LET key == <<req[p].region, loc[p].listed[loc[p].ci]>>
           name == loc[p].ngs[loc[p].ni]
           found == NodegroupNamed(key, name)
       IN \/ /\ found # Nil
             /\ calls' = [calls EXCEPT ![p].describeNodegroup =
                            Append(@, [cluster |-> key[2], name |-> name, err |-> ""])]
             /\ LET nodes == Append(loc[p].nodes, NodeSpecOf(name, found[1]))
                IN IF loc[p].ni = Len(loc[p].ngs)
                     THEN AppendCluster(p, nodes)
                     ELSE /\ loc' = [loc EXCEPT ![p].nodes = nodes, ![p].ni = @ + 1]
                          /\ UNCHANGED <<pc, resp>>
          \/ \E e \in {ErrCodeServerException} \cup
                      (IF found = Nil THEN {ErrCodeResourceNotFoundException} ELSE {}) :
               /\ calls' = [calls EXCEPT ![p].describeNodegroup =
                              Append(@, [cluster |-> key[2], name |-> name, err |-> e])]
               /\ DetailFailure(p, e)
    /\ UNCHANGED <<clusters, nodegroups, iam, req, overlap, secrets>>

------------------------------------------------------------------------------
(* spawnerService: the provider dispatcher, and AWSController.ClusterStatus *)

\* Provider strings a request may carry.
ProviderInputs == {"aws", "azure", "gcp", "digitalocean"}

\* The methods of spawnerService that resolve a controller and forward to it.
DispatchedOps ==
    {"CreateCluster", "GetCluster", "GetClusters", "AddToken", "GetToken",
     "ClusterStatus", "AddNode", "DeleteCluster", "DeleteNode", "CreateVolume",
     "DeleteVolume", "CreateSnapshot", "CreateSnapshotAndDelete",
     "GetWorkspacesCost"}

\* fmt.Errorf(ProviderNotFound, provider)
ProviderNotFound(provider) ==
    "provider not found, must be one of ['aws', 'azure'], got " \o provider

\* Mutant: gcp is not in the switch.
controller_WithoutGcp(provider) ==
    IF provider \in {"aws", "azure"}
      THEN [ctrl |-> Ptr(provider), err |-> ""]
      ELSE [ctrl |-> Nil, err |-> ProviderNotFound(provider)]

\* func (s *spawnerService) controller(provider string) (Controller, error)
controller(provider) ==
    IF provider \in {"aws", "azure", "gcp"}
      THEN [ctrl |-> Ptr(provider), err |-> ""]
      ELSE [ctrl |-> Nil, err |-> ProviderNotFound(provider)]

\* What a controller method can hand back: a response, or a response
\* together with an error.
ControllerResults ==
    {Return(Ptr(NoBody), ""),
     Return(Ptr([NoBody EXCEPT !.error = "controller error"]), "controller error")}

\* The dispatch method models the controller's own handler step by step.
Modelled(provider, op) == provider = "aws" /\ op = "ClusterStatus"

\* provider, err := s.controller(req.Provider); if err != nil { return nil, err }
\* return provider.Op(ctx, req)
\* A controller method that is not modelled step by step runs to its end here.
Dispatch(p) ==
    /\ pc[p] = "idle"
    /\ \E op \in DispatchedOps, provider \in ProviderInputs :
         LET out == controller(provider) IN
         /\ req' = [req EXCEPT ![p] =
                      [NoReq EXCEPT !.op = op, !.provider = provider,
                                    !.region = PreExistingKey[1],
                                    !.clusterName = PreExistingKey[2]]]
         /\ IF out.err # ""
              THEN /\ Fail(p, out.err)
                   /\ loc' = [loc EXCEPT ![p] = [NoLoc EXCEPT !.err = out.err]]
                   /\ UNCHANGED calls
              ELSE /\ calls' = [calls EXCEPT ![p].controller =
                                  Append(@, [controller |-> out.ctrl[1], op |-> op])]
                   /\ IF Modelled(provider, op)
                        THEN /\ pc' = [pc EXCEPT ![p] = "CS_ClusterStatus"]
                             /\ loc' = [loc EXCEPT ![p] =
                                          [NoLoc EXCEPT !.clusterName = PreExistingKey[2]]]
                             /\ UNCHANGED resp
                        ELSE \E result \in ControllerResults :
                               /\ loc' = [loc EXCEPT ![p] =
                                            [NoLoc EXCEPT !.result = result]]
                               /\ pc' = [pc EXCEPT ![p] = "done"]
                               /\ resp' = [resp EXCEPT ![p] = result]
    /\ Arrive(p)
    /\ UNCHANGED <<clusters, nodegroups, iam, secrets>>

\* return &pb.ClusterStatusResponse{Error: err.Error()}, err
StatusFailed(err) == Return(Ptr([NoBody EXCEPT !.error = err]), err)

\* The controller's handler returns result; the dispatch method returns it.
Handed(p, result) ==
    /\ loc' = [loc EXCEPT ![p].result = result,
                          ![p].err = result.err]
    /\ resp' = [resp EXCEPT ![p] = result]
    /\ pc' = [pc EXCEPT ![p] = "done"]

\* AWSController.ClusterStatus: session, err := NewSession(...)
ClusterStatus(p) ==
    /\ pc[p] = "CS_ClusterStatus"
    /\ \E sessionOk \in BOOLEAN :
         IF sessionOk
           THEN /\ pc' = [pc EXCEPT ![p] = "CS_getClusterSpec"]
                /\ UNCHANGED <<loc, resp>>
           ELSE Handed(p, Return(Nil, ErrSession))
    /\ UNCHANGED <<clusters, nodegroups, iam, req, calls, overlap, secrets>>

\* cluster, err := getClusterSpec(ctx, client, clusterName) and the return.
ClusterStatus_getClusterSpec(p) ==
    /\ pc[p] = "CS_getClusterSpec"
    /\ \E out \in getClusterSpec(<<req[p].region, req[p].clusterName>>) :
         /\ calls' = [calls EXCEPT ![p].describeCluster =
                        Append(@, [name |-> req[p].clusterName, err |-> out.err,
                                   status |-> IF out.cluster = Nil THEN ""
                                              ELSE out.cluster[1].status])]
         /\ IF out.err # ""
              THEN Handed(p, StatusFailed(out.err))
              ELSE Handed(p, Return(Ptr([NoBody EXCEPT !.status = out.cluster[1].status]),
                                    ""))
    /\ UNCHANGED <<clusters, nodegroups, iam, req, overlap, secrets>>

------------------------------------------------------------------------------
(* spawnerService.WriteCredential and ReadCredential *)

\* config.Get().SecretHostRegion
SecretHostRegion == "us-west-2"

Accounts == {"acme", "beta"}

\* constants.AwsLabel, constants.AzureLabel
AwsLabel == "aws"

AzureLabel == "azure"

\* Provider tags a credential request may carry.
CredProviders == {AwsLabel, AzureLabel, "gcp"}

\* proto.AwsCredentials payloads; the second has no session token.
AwsPayloads ==
    {[kind |-> "aws", accessKeyID |-> "AKIA1", secretAccessKey |-> "s1", token |-> "t1"],
     [kind |-> "aws", accessKeyID |-> "AKIA2", secretAccessKey |-> "s2", token |-> ""]}

\* proto.AzureCredentials payloads.
AzurePayloads ==
    {[kind |-> "azure", subscriptionID |-> "sub1", tenantID |-> "ten1",
      clientID |-> "cl1", clientSecret |-> "cs1", resourceGroup |-> "rg1"]}

\* The oneof of the request: no payload, an AWS payload or an Azure payload.
CredPayloads == {Nil} \cup {Ptr(c) : c \in AwsPayloads \cup AzurePayloads}

CredKeys == {SecretHostRegion} \X Accounts \X CredProviders

NoSecrets == [k \in CredKeys |-> Nil]

\* req.GetAwsCred(): the payload when the oneof holds the AWS variant, else nil
GetAwsCred(cred) == IF cred # Nil /\ cred[1].kind = "aws" THEN cred ELSE Nil

\* req.GetAzureCred()
GetAzureCred(cred) == IF cred # Nil /\ cred[1].kind = "azure" THEN cred ELSE Nil

\* &system.AwsCredential{Name: account, Id: ..., Secret: ..., Token: ...}
AwsCredential(account, c) ==
    [kind |-> "aws", name |-> account, id |-> c.accessKeyID,
     secret |-> c.secretAccessKey, token |-> c.token]

\* &system.AzureCredential{SubscriptionID: ..., ..., Name: account}
AzureCredential(account, c) ==
    [kind |-> "azure", name |-> account, subscriptionID |-> c.subscriptionID,
     tenantID |-> c.tenantID, clientID |-> c.clientID,
     clientSecret |-> c.clientSecret, resourceGroup |-> c.resourceGroup]

\* Mutant: the credential is built from whichever payload the request holds.
Credential_AnyPayload(provider, account, payload) ==
    IF provider \notin {AwsLabel, AzureLabel}
      THEN [cred |-> Nil, err |-> "invalid provider '" \o provider \o "'"]
    ELSE IF payload = Nil
      THEN [cred |-> Nil,
            err |-> " unknown credentials must be set for provider " \o provider]
    ELSE IF payload[1].kind = "aws"
      THEN [cred |-> Ptr(AwsCredential(account, payload[1])), err |-> ""]
      ELSE [cred |-> Ptr(AzureCredential(account, payload[1])), err |-> ""]

\* The switch on the provider in WriteCredential and the check of cred == nil.
Credential(provider, account, payload) ==
    IF provider = AwsLabel
      THEN IF GetAwsCred(payload) # Nil
             THEN [cred |-> Ptr(AwsCredential(account, GetAwsCred(payload)[1])),
                   err |-> ""]
             ELSE [cred |-> Nil,
                   err |-> " AwsCredential credentials must be set for provider "
                              \o provider]
    ELSE IF provider = AzureLabel
      THEN IF GetAzureCred(payload) # Nil
             THEN [cred |-> Ptr(AzureCredential(account, GetAzureCred(payload)[1])),
                   err |-> ""]
             ELSE [cred |-> Nil,
                   err |-> " AzureCredential credentials must be set for provider "
                              \o provider]
      ELSE [cred |-> Nil, err |-> "invalid provider '" \o provider \o "'"]

\* Mutant: the write keeps the fields of the stored record that the new one
\* leaves empty (a field merge).
writeCredentials_Merge(store, key, cred) ==
    [store EXCEPT ![key] =
        IF @ # Nil /\ @[1].kind = cred.kind
          THEN Ptr([f \in DOMAIN cred |-> IF cred[f] = "" THEN @[1][f] ELSE cred[f]])
          ELSE Ptr(cred)]

\* s.writeCredentials: the record of the key is replaced as a whole (upsert).
writeCredentials(store, key, cred) == [store EXCEPT ![key] = Ptr(cred)]

\* s.getCredentials: the stored record, NotFound when there is none, or a
\* failure of the backend.
getCredentials(key) ==
    (IF secrets[key] = Nil THEN {[creds |-> Nil, err |-> "NotFound"]}
     ELSE {[creds |-> secrets[key], err |-> ""]})
    \cup {[creds |-> Nil, err |-> ErrCodeServerException]}

\* The whole handler: one call of the secret backend at most.
WriteCredential(p) ==
    /\ pc[p] = "idle"
    /\ \E account \in Accounts, provider \in CredProviders, payload \in CredPayloads :
         LET c == Credential(provider, account, payload)
             key == <<SecretHostRegion, account, provider>>
         IN /\ req' = [req EXCEPT ![p] =
                         [NoReq EXCEPT !.op = "WriteCredential", !.provider = provider,
                                       !.account = account, !.cred = payload]]
            /\ IF c.cred = Nil
                 THEN /\ Fail(p, c.err)
                      /\ UNCHANGED <<secrets, calls>>
                 ELSE \/ /\ secrets' = writeCredentials(secrets, key, c.cred[1])
                         /\ calls' = [calls EXCEPT ![p].writeCredentials =
                                        Append(@, [key |-> key, err |-> ""])]
                         /\ pc' = [pc EXCEPT ![p] = "done"]
                         /\ resp' = [resp EXCEPT ![p] = Return(Ptr(NoBody), "")]
                      \/ /\ calls' = [calls EXCEPT ![p].writeCredentials =
                                        Append(@, [key |-> key,
                                                   err |-> ErrCodeServerException])]
                         /\ Fail(p, ErrCodeServerException)
                         /\ UNCHANGED secrets
    /\ Arrive(p)
    /\ UNCHANGED <<clusters, nodegroups, iam, loc>>

\* The response ReadCredential builds from the stored credential.
ReadResponse(account, provider, creds) ==
    IF provider = AwsLabel
      THEN IF creds.kind # "aws" THEN Panic
           ELSE Return(Ptr([NoBody EXCEPT
                              !.account = account,
                              !.cred = Ptr([kind |-> "aws", accessKeyID |-> creds.id,
                                            secretAccessKey |-> creds.secret,
                                            token |-> creds.token])]), "")
    ELSE IF provider = AzureLabel
      THEN IF creds.kind # "azure" THEN Panic
           ELSE Return(Ptr([NoBody EXCEPT
                              !.account = account,
                              !.cred = Ptr([kind |-> "azure",
                                            subscriptionID |-> creds.subscriptionID,
                                            tenantID |-> creds.tenantID,
                                            clientID |-> creds.clientID,
                                            clientSecret |-> creds.clientSecret,
                                            resourceGroup |-> creds.resourceGroup])]),
                       "")
      ELSE Return(Ptr([NoBody EXCEPT !.account = account]), "")

\* The whole handler: one read of the secret backend.
ReadCredential(p) ==
    /\ pc[p] = "idle"
    /\ \E account \in Accounts, provider \in CredProviders :
         LET key == <<SecretHostRegion, account, provider>> IN
         /\ req' = [req EXCEPT ![p] =
                      [NoReq EXCEPT !.op = "ReadCredential", !.provider = provider,
                                    !.account = account]]
         /\ \E out \in getCredentials(key) :
              /\ calls' = [calls EXCEPT ![p].getCredentials =
                             Append(@, [key |-> key, err |-> out.err])]
              /\ pc' = [pc EXCEPT ![p] = "done"]
              /\ resp' = [resp EXCEPT ![p] =
                            IF out.err # "" THEN Return(Nil, out.err)
                            ELSE ReadResponse(account, provider, out.creds[1])]
    /\ Arrive(p)
    /\ UNCHANGED <<clusters, nodegroups, iam, loc, secrets>>

------------------------------------------------------------------------------
(* AWSController.GetCluster *)

ErrClusterUnreachable == "cluster unreachable"

\* Nodes as the cluster's Kubernetes API lists them: a ready node, a node whose
\* kubelet reports Ready = False, and a node that has reported no condition
\* of type Ready yet.  Ephemeral storage is in bytes.
ReadyNode ==
    [name |-> "ip-10-0-0-1", uid |-> "uid-1",
     labels |-> [instance |-> "t3.medium", zone |-> "us-east-1a"],
     addresses |-> <<[type |-> "InternalIP", address |-> "10.0.0.1"],
                     [type |-> "Hostname", address |-> "ip-10-0-0-1.ec2.internal"]>>,
     conditions |-> <<[type |-> "MemoryPressure", status |-> "False"],
                      [type |-> "Ready", status |-> "True"]>>,
     storageEphemeral |-> 1610612736]

NotReadyNode ==
    [name |-> "ip-10-0-0-2", uid |-> "uid-2",
     labels |-> [instance |-> "p3.2xlarge", zone |-> "us-east-1b"],
     addresses |-> <<[type |-> "InternalIP", address |-> "10.0.0.2"]>>,
     conditions |-> <<[type |-> "Ready", status |-> "False"]>>,
     storageEphemeral |-> 104857600]

NewNode ==
    [name |-> "ip-10-0-0-3", uid |-> "uid-3",
     labels |-> [instance |-> "t3.medium", zone |-> "us-east-1a"],
     addresses |-> << >>,
     conditions |-> <<[type |-> "MemoryPressure", status |-> "False"]>>,
     storageEphemeral |-> 0]

\* The node lists the Kubernetes API may return.
NodeLists ==
    {<< >>, <<ReadyNode>>, <<NotReadyNode>>, <<NewNode>>,
     <<ReadyNode, NotReadyNode>>, <<NotReadyNode, NewNode>>}

\* The last address of the type among the node's addresses, or the default.
AddressOf(addresses, type, default) ==
    LET hit == {i \in DOMAIN addresses : addresses[i].type = type}
    IN IF hit = {} THEN default
       ELSE addresses[CHOOSE i \in hit : \A j \in hit : j <= i].address

\* state := "inactive"; for _, cond := range node.Status.Conditions {
\*     if cond.Type == "Ready" { state = "active" } }
StateOf(conditions) ==
    IF \E i \in DOMAIN conditions : conditions[i].type = "Ready"
      THEN "active" ELSE "inactive"

\* The pb.NodeSpec GetCluster builds for a node.  The disk size is in MB; the
\* values of the model stay within int32.
NodeSpecFromNode(node) ==
    [name |-> node.name,
     instance |-> node.labels.instance,
     diskSize |-> (node.storageEphemeral \div 1024) \div 1024,
     hostName |-> AddressOf(node.addresses, "HostName", node.name),
     state |-> StateOf(node.conditions),
     uuid |-> node.uid,
     ipAddr |-> AddressOf(node.addresses, "InternalIP", ""),
     labels |-> node.labels,
     availabilityzone |-> node.labels.zone]

\* session.getK8sClient(cluster): the client cannot be built while the
\* cluster has no control-plane endpoint (it is being created); building it
\* can fail for other reasons too.
getK8sClient(cluster) ==
    IF cluster.status = "CREATING" THEN {ErrClusterUnreachable}
    ELSE {"", ErrCodeServerException}

\* Mutant: the failure to build the client is logged and the handler goes on.
K8sClientFailed_Ignored(err) == FALSE

\* k8sClient, err := session.getK8sClient(cluster); if err != nil { return nil, err }
K8sClientFailed(err) == err # ""

\* The request arrives and the session is opened.
GetCluster(p) ==
    /\ pc[p] = "idle"
    /\ \E sessionOk \in BOOLEAN :
         /\ req' = [req EXCEPT ![p] =
                      [NoReq EXCEPT !.op = "GetCluster", !.provider = "aws",
                                    !.region = PreExistingKey[1],
                                    !.clusterName = PreExistingKey[2]]]
         /\ loc' = [loc EXCEPT ![p] = [NoLoc EXCEPT !.clusterName = PreExistingKey[2]]]
         /\ IF sessionOk
              THEN /\ pc' = [pc EXCEPT ![p] = "GC_getClusterSpec"]
                   /\ UNCHANGED resp
              ELSE Fail(p, ErrSession)
    /\ Arrive(p)
    /\ UNCHANGED <<clusters, nodegroups, iam, calls, secrets>>

\* cluster, err := getClusterSpec(...) and the Kubernetes client for it.
GetCluster_getClusterSpec(p) ==
    /\ pc[p] = "GC_getClusterSpec"
    /\ \E out \in getClusterSpec(<<req[p].region, req[p].clusterName>>) :
         LET described == [name |-> req[p].clusterName, err |-> out.err,
                           status |-> IF out.cluster = Nil THEN ""
                                      ELSE out.cluster[1].status]
         IN IF out.err # ""
              THEN /\ calls' = [calls EXCEPT ![p].describeCluster = Append(@, described)]
                   /\ loc' = [loc EXCEPT ![p].err = out.err]
                   /\ Fail(p, out.err)
              ELSE \E kerr \in getK8sClient(out.cluster[1]) :
                     /\ calls' = [calls EXCEPT
                                    ![p].describeCluster = Append(@, described),
                                    ![p].getK8sClient = Append(@, kerr)]
                     /\ loc' = [loc EXCEPT ![p].cluster = out.cluster, ![p].err = kerr]
                     /\ IF K8sClientFailed(kerr)
                          THEN Fail(p, kerr)
                          ELSE /\ pc' = [pc EXCEPT ![p] = "GC_ListNodes"]
                               /\ UNCHANGED resp
    /\ UNCHANGED <<clusters, nodegroups, iam, req, overlap, secrets>>

\* nodeList, err := k8sClient.CoreV1().Nodes().List(...) and the response.
GetCluster_ListNodes(p) ==
    /\ pc[p] = "GC_ListNodes"
    /\ \/ \E items \in NodeLists :
            /\ calls' = [calls EXCEPT ![p].listNodes =
                           Append(@, [err |-> "", items |-> items])]
            /\ resp' = [resp EXCEPT ![p] =
                          Return(Ptr([NoBody EXCEPT
                                        !.name = loc[p].clusterName,
                                        !.nodeSpec = [i \in DOMAIN items |->
                                                        NodeSpecFromNode(items[i])]]),
                                 "")]
            /\ UNCHANGED loc
       \/ /\ calls' = [calls EXCEPT ![p].listNodes =
                         Append(@, [err |-> ErrCodeServerException, items |-> << >>])]
          /\ resp' = [resp EXCEPT ![p] = Return(Nil, ErrCodeServerException)]
          /\ loc' = [loc EXCEPT ![p].err = ErrCodeServerException]
    /\ pc' = [pc EXCEPT ![p] = "done"]
    /\ UNCHANGED <<clusters, nodegroups, iam, req, overlap, secrets>>

------------------------------------------------------------------------------
(* AWSController.GetToken, and ClusterStatus called on the controller *)

\* session.getKubeConfig(cluster): the endpoint, the CA data and a bearer
\* token derived from the cluster the describe call returned.  It fails while
\* the cluster has no endpoint, and the token generator can fail.  Handed a
\* nil cluster it has nothing to read: it dereferences nil or returns an error.
getKubeConfig(cluster) ==
    IF cluster = Nil
      THEN {[kind |-> "panic", config |-> Nil, err |-> ""],
            [kind |-> "return", config |-> Nil, err |-> ErrClusterUnreachable]}
    ELSE IF cluster[1].status = "CREATING"
      THEN {[kind |-> "return", config |-> Nil, err |-> ErrClusterUnreachable]}
      ELSE {[kind |-> "return",
             config |-> Ptr([BearerToken |-> "k8s-aws-v1." \o cluster[1].name,
                             CAData |-> "ca-" \o cluster[1].name,
                             Host |-> "https://" \o cluster[1].name \o ".eks"]),
             err |-> ""],
            [kind |-> "return", config |-> Nil, err |-> ErrCodeServerException]}

\* return &pb.GetTokenResponse{Token: ..., CaData: ..., Endpoint: ...}, nil
TokenResponse(config) ==
    [NoBody EXCEPT !.token = config.BearerToken,
                   !.caData = config.CAData,
                   !.endpoint = config.Host]

\* The request arrives and the session is opened.
GetToken(p) ==
    /\ pc[p] = "idle"
    /\ \E sessionOk \in BOOLEAN :
         /\ req' = [req EXCEPT ![p] =
                      [NoReq EXCEPT !.op = "GetToken", !.provider = "aws",
                                    !.region = PreExistingKey[1],
                                    !.clusterName = PreExistingKey[2]]]
         /\ loc' = [loc EXCEPT ![p] = [NoLoc EXCEPT !.clusterName = PreExistingKey[2]]]
         /\ IF sessionOk
              THEN /\ pc' = [pc EXCEPT ![p] = "GT_getClusterSpec"]
                   /\ UNCHANGED resp
              ELSE Fail(p, ErrSession)
    /\ Arrive(p)
    /\ UNCHANGED <<clusters, nodegroups, iam, calls, secrets>>

\* Mutant: instead of describing the cluster the handler creates it.
GetToken_getClusterSpec_Creating(p) ==
    /\ pc[p] = "GT_getClusterSpec"
    /\ clusters' = [clusters EXCEPT ![<<req[p].region, req[p].clusterName>>] = "CREATING"]
    /\ calls' = [calls EXCEPT ![p].createCluster = Append(@, req[p].clusterName)]
    /\ resp' = [resp EXCEPT ![p] = Return(Nil, ErrClusterUnreachable)]
    /\ pc' = [pc EXCEPT ![p] = "done"]
    /\ UNCHANGED <<nodegroups, iam, req, loc, overlap, secrets>>

\* cluster, err := getClusterSpec(...); kubeConfig, err := session.getKubeConfig(cluster)
\* The error of the describe call is overwritten before it is looked at.
GetToken_getClusterSpec(p) ==
    /\ pc[p] = "GT_getClusterSpec"
    /\ \E out \in getClusterSpec(<<req[p].region, req[p].clusterName>>) :
         \E kube \in getKubeConfig(out.cluster) :
           /\ calls' = [calls EXCEPT
                          ![p].describeCluster =
                              Append(@, [name |-> req[p].clusterName, err |-> out.err,
                                         status |-> IF out.cluster = Nil THEN ""
                                                    ELSE out.cluster[1].status]),
                          ![p].getKubeConfig =
                              Append(@, [cluster |-> out.cluster, kind |-> kube.kind,
                                         err |-> kube.err])]
           /\ loc' = [loc EXCEPT ![p].cluster = out.cluster, ![p].err = kube.err]
           /\ resp' = [resp EXCEPT ![p] =
                         IF kube.kind = "panic" THEN Panic
                         ELSE IF kube.err # "" THEN Return(Nil, kube.err)
                         ELSE Return(Ptr(TokenResponse(kube.config[1])), "")]
           /\ pc' = [pc EXCEPT ![p] = "done"]
    /\ UNCHANGED <<clusters, nodegroups, iam, req, overlap, secrets>>

\* A ClusterStatus request handed to the AWS controller:
\* region := req.Region; clusterName := req.ClusterName
ClusterStatus_Request(p) ==
    /\ pc[p] = "idle"
    /\ req' = [req EXCEPT ![p] =
                 [NoReq EXCEPT !.op = "ClusterStatus", !.provider = "aws",
                               !.region = PreExistingKey[1],
                               !.clusterName = PreExistingKey[2]]]
    /\ loc' = [loc EXCEPT ![p] = [NoLoc EXCEPT !.clusterName = PreExistingKey[2]]]
    /\ pc' = [pc EXCEPT ![p] = "CS_ClusterStatus"]
    /\ Arrive(p)
    /\ UNCHANGED <<clusters, nodegroups, iam, resp, calls, secrets>>

------------------------------------------------------------------------------
(* Specifications *)

Init ==
    /\ \E s0 \in ClusterStatuses \cup {"NotFound"} :
          clusters = [k \in ClusterKeys |-> IF k = PreExistingKey THEN s0 ELSE "NotFound"]
    /\ nodegroups = [k \in ClusterKeys |-> << >>]
    /\ iam = [exists |-> FALSE, attached |-> {}]
    /\ pc = [p \in Procs |-> "idle"]
    /\ req = [p \in Procs |-> NoReq]
    /\ loc = [p \in Procs |-> NoLoc]
    /\ resp = [p \in Procs |-> NoResp]
    /\ calls = [p \in Procs |-> NoCalls]
    /\ overlap = [p \in Procs |-> {}]
    /\ secrets = NoSecrets

ClusterStep(p) ==
    \/ CreateCluster(p)
    \/ CreateCluster_getClusterSpec(p)
    \/ CreateCluster_createClusterInternal(p)
    \/ DeleteCluster(p)
    \/ DeleteCluster_DeleteCluster(p)

NextCluster ==
    \/ \E p \in Procs : ClusterStep(p)
    \/ \E key \in ClusterKeys : VendorProgress(key)

\* Cluster requests running concurrently, in any interleaving.
SpecCluster == Init /\ [][NextCluster]_vars

\* No other request is in flight: requests run one after another.
Alone(p) == \A q \in Procs \ {p} : ~InFlight(q)

NextClusterSeq ==
    \/ \E p \in Procs : Alone(p) /\ CreateCluster(p)
    \/ \E p \in Procs : Alone(p) /\ CreateCluster_getClusterSpec(p)
    \/ \E p \in Procs : Alone(p) /\ CreateCluster_createClusterInternal(p)
    \/ \E p \in Procs : Alone(p) /\ DeleteCluster(p)
    \/ \E p \in Procs : Alone(p) /\ DeleteCluster_DeleteCluster(p)
    \/ \E key \in ClusterKeys : VendorProgress(key)

\* Cluster requests issued in sequence.
SpecClusterSeq == Init /\ [][NextClusterSeq]_vars

\* Node-group requests start from an active cluster that has no node group or
\* the foreign one, and from an account without the node-group role.
InitNode ==
    /\ clusters = [k \in ClusterKeys |-> IF k = NodeCluster THEN "ACTIVE" ELSE "NotFound"]
    /\ \E groups \in {<< >>, <<ForeignNodegroup>>} :
          nodegroups = [k \in ClusterKeys |-> IF k = NodeCluster THEN groups ELSE << >>]
    /\ iam = [exists |-> FALSE, attached |-> {}]
    /\ pc = [p \in Procs |-> "idle"]
    /\ req = [p \in Procs |-> NoReq]
    /\ loc = [p \in Procs |-> NoLoc]
    /\ resp = [p \in Procs |-> NoResp]
    /\ calls = [p \in Procs |-> NoCalls]
    /\ overlap = [p \in Procs |-> {}]
    /\ secrets = NoSecrets

NextNode ==
    \/ \E p \in Procs : AddNode(p)
    \/ \E p \in Procs : AddNode_ListNodegroups(p)
    \/ \E p \in Procs : AddNode_DescribeNodegroup(p)
    \/ \E p \in Procs : AddNode_getClusterSpec(p)
    \/ \E p \in Procs : AddNode_GetRole(p)
    \/ \E p \in Procs : AddNode_CreateRole(p)
    \/ \E p \in Procs : AddNode_attachPolicy(p)
    \/ \E p \in Procs : AddNode_CreateNodegroup(p)
    \/ \E p \in Procs : DeleteNode(p)
    \/ \E p \in Procs : DeleteNode_DeleteNodegroup(p)

\* AddNode and DeleteNode requests running concurrently, in any interleaving.
SpecNode == InitNode /\ [][NextNode]_vars

\* A second node group made outside the service, from a launch template: the
\* vendor reports no instance types for it.
TemplateNodegroup ==
    [ForeignNodegroup EXCEPT !.name = "ng-template", !.instanceTypes = << >>,
                             !.capacityType = "ON_DEMAND"]

\* The listing starts from a region with up to two active clusters and their
\* node groups.
InitList ==
    /\ \E second \in {"NotFound", "ACTIVE"} :
          clusters = [k \in ClusterKeys |->
                        IF k = NodeCluster THEN "ACTIVE"
                        ELSE IF k = <<"us-east-1", "aws-us-east-1">> THEN second
                        ELSE "NotFound"]
    /\ \E groups \in {<< >>, <<ForeignNodegroup>>, <<ForeignNodegroup, TemplateNodegroup>>} :
          nodegroups = [k \in ClusterKeys |->
                          IF k = NodeCluster THEN groups
                          ELSE IF k = <<"us-east-1", "aws-us-east-1">>
                                    /\ clusters[k] = "ACTIVE"
                          THEN <<[ForeignNodegroup EXCEPT !.name = "ng-other"]>>
                          ELSE << >>]
    /\ iam = [exists |-> FALSE, attached |-> {}]
    /\ pc = [p \in Procs |-> "idle"]
    /\ req = [p \in Procs |-> NoReq]
    /\ loc = [p \in Procs |-> NoLoc]
    /\ resp = [p \in Procs |-> NoResp]
    /\ calls = [p \in Procs |-> NoCalls]
    /\ overlap = [p \in Procs |-> {}]
    /\ secrets = NoSecrets

NextList ==
    \/ \E p \in Procs : GetClusters(p)
    \/ \E p \in Procs : GetClusters_ListClusters(p)
    \/ \E p \in Procs : GetClusters_ListNodegroups(p)
    \/ \E p \in Procs : GetClusters_DescribeNodegroup(p)
    \/ \E p \in Procs : DeleteNode(p)
    \/ \E p \in Procs : DeleteNode_DeleteNodegroup(p)

\* GetClusters requests, with node groups being deleted meanwhile.
SpecList == InitList /\ [][NextList]_vars

NextDelete ==
    \/ \E p \in Procs : DeleteCluster(p)
    \/ \E p \in Procs : DeleteCluster_DeleteCluster(p)
    \/ \E p \in Procs : DeleteNode(p)
    \/ \E p \in Procs : DeleteNode_DeleteNodegroup(p)
    \/ \E key \in ClusterKeys : VendorProgress(key)

\* DeleteCluster and DeleteNode requests on a region with clusters and node
\* groups, in any interleaving.
SpecDelete == InitList /\ [][NextDelete]_vars

\* The dispatcher starts with the cluster "c1" absent or active.
InitDispatch ==
    /\ \E s0 \in {"NotFound", "ACTIVE"} :
          clusters = [k \in ClusterKeys |-> IF k = PreExistingKey THEN s0 ELSE "NotFound"]
    /\ nodegroups = [k \in ClusterKeys |-> << >>]
    /\ iam = [exists |-> FALSE, attached |-> {}]
    /\ pc = [p \in Procs |-> "idle"]
    /\ req = [p \in Procs |-> NoReq]
    /\ loc = [p \in Procs |-> NoLoc]
    /\ resp = [p \in Procs |-> NoResp]
    /\ calls = [p \in Procs |-> NoCalls]
    /\ overlap = [p \in Procs |-> {}]
    /\ secrets = NoSecrets

NextDispatch ==
    \/ \E p \in Procs : Dispatch(p)
    \/ \E p \in Procs : ClusterStatus(p)
    \/ \E p \in Procs : ClusterStatus_getClusterSpec(p)

\* Requests entering through the dispatch methods of spawnerService.
SpecDispatch == InitDispatch /\ [][NextDispatch]_vars

\* The secret backend is empty, or holds the AWS credential of "acme" that an
\* earlier WriteCredential stored.
InitCred ==
    /\ clusters = [k \in ClusterKeys |-> "NotFound"]
    /\ nodegroups = [k \in ClusterKeys |-> << >>]
    /\ iam = [exists |-> FALSE, attached |-> {}]
    /\ pc = [p \in Procs |-> "idle"]
    /\ req = [p \in Procs |-> NoReq]
    /\ loc = [p \in Procs |-> NoLoc]
    /\ resp = [p \in Procs |-> NoResp]
    /\ calls = [p \in Procs |-> NoCalls]
    /\ overlap = [p \in Procs |-> {}]
    /\ \E earlier \in {Nil} \cup {Ptr(c) : c \in AwsPayloads} :
          secrets = IF earlier = Nil THEN NoSecrets
                    ELSE writeCredentials(NoSecrets,
                                          <<SecretHostRegion, "acme", AwsLabel>>,
                                          AwsCredential("acme", earlier[1]))

NextCred ==
    \/ \E p \in Procs : WriteCredential(p)
    \/ \E p \in Procs : ReadCredential(p)

\* Credential requests; each handler makes one call of the secret backend, so
\* the requests take effect one after another, in their order of arrival.
SpecCred == InitCred /\ [][NextCred]_vars

NextGet ==
    \/ \E p \in Procs : GetCluster(p)
    \/ \E p \in Procs : GetCluster_getClusterSpec(p)
    \/ \E p \in Procs : GetCluster_ListNodes(p)
    \/ \E key \in ClusterKeys : VendorProgress(key)

\* GetCluster requests on a cluster that moves through its life cycle.
SpecGet == Init /\ [][NextGet]_vars

\* The read-only requests start from a cluster that is being created or is
\* active with a node group.
InitRead ==
    /\ \E s0 \in {"CREATING", "ACTIVE"} :
          /\ clusters = [k \in ClusterKeys |-> IF k = PreExistingKey THEN s0 ELSE "NotFound"]
          /\ nodegroups = [k \in ClusterKeys |->
                             IF k = PreExistingKey /\ s0 = "ACTIVE"
                               THEN <<ForeignNodegroup>> ELSE << >>]
    /\ iam = [exists |-> FALSE, attached |-> {}]
    /\ pc = [p \in Procs |-> "idle"]
    /\ req = [p \in Procs |-> NoReq]
    /\ loc = [p \in Procs |-> NoLoc]
    /\ resp = [p \in Procs |-> NoResp]
    /\ calls = [p \in Procs |-> NoCalls]
    /\ overlap = [p \in Procs |-> {}]
    /\ secrets = NoSecrets

NextRead ==
    \/ \E p \in Procs : GetCluster(p)
    \/ \E p \in Procs : GetCluster_getClusterSpec(p)
    \/ \E p \in Procs : GetCluster_ListNodes(p)
    \/ \E p \in Procs : GetClusters(p)
    \/ \E p \in Procs : GetClusters_ListClusters(p)
    \/ \E p \in Procs : GetClusters_ListNodegroups(p)
    \/ \E p \in Procs : GetClusters_DescribeNodegroup(p)
    \/ \E p \in Procs : ClusterStatus_Request(p)
    \/ \E p \in Procs : ClusterStatus(p)
    \/ \E p \in Procs : ClusterStatus_getClusterSpec(p)
    \/ \E p \in Procs : GetToken(p)
    \/ \E p \in Procs : GetToken_getClusterSpec(p)
    \/ \E p \in Procs : DeleteCluster(p)
    \/ \E p \in Procs : DeleteCluster_DeleteCluster(p)
    \/ \E key \in ClusterKeys : VendorProgress(key)

\* GetCluster, GetClusters, ClusterStatus and GetToken requests, with the
\* cluster being deleted meanwhile.
SpecRead == InitRead /\ [][NextRead]_vars

------------------------------------------------------------------------------
(* Claims about CreateCluster *)

IsCreateCluster(p) == req[p].op = "CreateCluster"

Done(p) == pc[p] = "done"

\* The handler returned a response message (a non-nil first result).
HasResponse(p) == resp[p].kind = "return" /\ resp[p].body # Nil

\* Same provider, region and (resolved) cluster name.
SameCluster(p, q) ==
    /\ req[p].provider = req[q].provider
    /\ req[p].region = req[q].region
    /\ loc[p].clusterName = loc[q].clusterName

\* q arrived while p was in flight, or p while q was.
Concurrent(p, q) == p \in overlap[q] \/ q \in overlap[p]

CreateCalls(p) == Len(calls[p].createCluster)

\* The outcome of p's describe call, once made.
Described(p) == calls[p].describeCluster # << >>

DescribeErr(p) == calls[p].describeCluster[1].err

\* C1: two CreateCluster calls made one after the other for the same
\* (provider, region, name), the first of which returned a response: every
\* response of the second carries the same cluster name as the first, and the
\* two calls together issued at most one vendor create-cluster call.
C1_CreateClusterIdempotent ==
    \A p \in Procs, q \in Procs :
        ( /\ q = p + 1
          /\ IsCreateCluster(p) /\ IsCreateCluster(q)
          /\ SameCluster(p, q)
          /\ HasResponse(p)
          /\ Done(q) )
        => /\ CreateCalls(p) + CreateCalls(q) <= 1
           /\ HasResponse(q) =>
                resp[q].body[1].clusterName = resp[p].body[1].clusterName

\* C1 witness: the first call created the cluster, the second found it; both
\* answered with the same name.
C1_Witness ==
    \E p \in Procs, q \in Procs :
        /\ q = p + 1
        /\ IsCreateCluster(p) /\ IsCreateCluster(q)
        /\ SameCluster(p, q)
        /\ HasResponse(p) /\ HasResponse(q)
        /\ CreateCalls(p) = 1 /\ CreateCalls(q) = 0
        /\ resp[q].body[1].clusterName = resp[p].body[1].clusterName

\* C2 (as stated): of the CreateCluster requests for one (provider, region,
\* name) that run concurrently, at most one issues a vendor create-cluster
\* request.
C2_AtMostOneCreateConcurrent ==
    \A p \in Procs, q \in Procs :
        ( /\ p # q
          /\ IsCreateCluster(p) /\ IsCreateCluster(q)
          /\ SameCluster(p, q)
          /\ Concurrent(p, q) )
        => CreateCalls(p) + CreateCalls(q) <= 1

\* C2 (amended): every CreateCluster request issues at most one vendor
\* create-cluster request, for its own cluster name, and only after its own
\* describe call answered ResourceNotFoundException; concurrent requests are
\* not serialised, so each of them may issue one.
C2_OneCreatePerRequest ==
    \A p \in Procs :
        IsCreateCluster(p) =>
            /\ CreateCalls(p) <= 1
            /\ CreateCalls(p) = 1 =>
                 /\ Described(p)
                 /\ DescribeErr(p) = ErrCodeResourceNotFoundException
                 /\ calls[p].createCluster[1] = loc[p].clusterName
                 /\ calls[p].describeCluster[1].name = loc[p].clusterName

\* C2 witness: two concurrent requests for the same cluster both saw NotFound
\* and both issued a create.
C2_Witness ==
    \E p \in Procs, q \in Procs :
        /\ p # q
        /\ IsCreateCluster(p) /\ IsCreateCluster(q)
        /\ SameCluster(p, q)
        /\ Concurrent(p, q)
        /\ CreateCalls(p) = 1 /\ CreateCalls(q) = 1
        /\ DescribeErr(p) = ErrCodeResourceNotFoundException
        /\ DescribeErr(q) = ErrCodeResourceNotFoundException

\* C7 failing input: the describe call failed with ServerException and the
\* handler dereferenced the nil cluster.
C7_Witness ==
    \E p \in Procs :
        /\ IsCreateCluster(p)
        /\ Described(p)
        /\ DescribeErr(p) = ErrCodeServerException
        /\ resp[p] = Panic

\* C7: a CreateCluster whose describe call failed with a vendor error other
\* than NotFound returns that error to the caller and issues no vendor
\* create-cluster call.
C7_DescribeErrorReturned ==
    \A p \in Procs :
        ( /\ IsCreateCluster(p)
          /\ Described(p)
          /\ DescribeErr(p) \notin {"", ErrCodeResourceNotFoundException} )
        => /\ CreateCalls(p) = 0
           /\ Done(p)
           /\ resp[p].kind = "return"
           /\ resp[p].err = DescribeErr(p)

\* C9: a CreateCluster whose describe call reported the cluster, in whatever
\* state, returns success with the existing cluster's name and issues no
\* vendor create-cluster call.
C9_ExistingClusterNoOp ==
    \A p \in Procs :
        ( /\ IsCreateCluster(p)
          /\ Described(p)
          /\ calls[p].describeCluster[1].status \in ClusterStatuses )
        => /\ Done(p)
           /\ HasResponse(p)
           /\ resp[p].err = ""
           /\ resp[p].body[1].clusterName = calls[p].describeCluster[1].name
           /\ resp[p].body[1].clusterName = loc[p].clusterName
           /\ CreateCalls(p) = 0

\* C9 witness: a request found a cluster that is being deleted, answered with
\* its name and created nothing.
C9_Witness ==
    \E p \in Procs :
        /\ IsCreateCluster(p)
        /\ Described(p)
        /\ calls[p].describeCluster[1].status = "DELETING"
        /\ HasResponse(p)
        /\ resp[p].body[1].clusterName = "c1"
        /\ CreateCalls(p) = 0

\* C10: a CreateCluster without a cluster name works on the name
\* "{provider}-{region}": it describes that name, and when none exists the
\* vendor create is invoked with it and the response's clusterName equals it
\* (provider aws, region us-east-1: aws-us-east-1).
C10_DerivedClusterName ==
    \A p \in Procs :
        (IsCreateCluster(p) /\ req[p].clusterName = "") =>
            LET derived == req[p].provider \o "-" \o req[p].region IN
            /\ (req[p].provider = "aws" /\ req[p].region = "us-east-1")
                 => derived = "aws-us-east-1"
            /\ \A i \in DOMAIN calls[p].describeCluster :
                 calls[p].describeCluster[i].name = derived
            /\ \A i \in DOMAIN calls[p].createCluster :
                 calls[p].createCluster[i] = derived
            /\ (Described(p) /\ DescribeErr(p) = ErrCodeResourceNotFoundException
                  /\ Done(p) /\ resp[p].err = "")
                 => /\ calls[p].createCluster = <<derived>>
                    /\ HasResponse(p)
                    /\ resp[p].body[1].clusterName = derived

\* C10 witness: the scenario of the specification, created and answered as
\* aws-us-east-1.
C10_Witness ==
    \E p \in Procs :
        /\ IsCreateCluster(p)
        /\ req[p].clusterName = "" /\ req[p].provider = "aws"
        /\ req[p].region = "us-east-1"
        /\ calls[p].createCluster = <<"aws-us-east-1">>
        /\ HasResponse(p)
        /\ resp[p].body[1].clusterName = "aws-us-east-1"
        /\ clusters[<<"us-east-1", "aws-us-east-1">>] = "CREATING"

------------------------------------------------------------------------------
(* Claims about AddNode and GetClusters *)

IsAddNode(p) == req[p].op = "AddNode"

Listed(p) == calls[p].listNodegroups # << >>

\* AddNode found no node group: the configuration comes from the cluster.
ClusterPath(p) ==
    /\ IsAddNode(p)
    /\ Listed(p)
    /\ calls[p].listNodegroups[1].err = ""
    /\ calls[p].listNodegroups[1].listing = << >>

\* The create-node-group calls a request made with an input (not nil).
CreateInputs(p) ==
    {calls[p].createNodegroup[i][1] :
        i \in {j \in DOMAIN calls[p].createNodegroup : calls[p].createNodegroup[j] # Nil}}

\* The policies a request attached with success.
AttachedBy(p) ==
    {calls[p].attachPolicy[i].policy :
        i \in {j \in DOMAIN calls[p].attachPolicy : calls[p].attachPolicy[j].err = ""}}

RoleStepFailed(p) ==
    \/ \E i \in DOMAIN calls[p].getRole :
          calls[p].getRole[i] \notin {"", "NoSuchEntity"}
    \/ \E i \in DOMAIN calls[p].createRole : calls[p].createRole[i] # ""
    \/ \E i \in DOMAIN calls[p].attachPolicy : calls[p].attachPolicy[i].err # ""

\* C3: an AddNode for a node-group name the cluster already has issues no
\* vendor create-node-group call and fails (with NodeGroupExists once it has
\* the listing); node-group names stay unique within every cluster.
C3_ExistingNameRejected ==
    /\ \A p \in Procs :
         ( /\ IsAddNode(p)
           /\ Listed(p)
           /\ req[p].nodeSpec.name \in calls[p].listNodegroups[1].existing )
         => /\ calls[p].createNodegroup = << >>
            /\ Done(p) =>
                 /\ resp[p].kind = "return" /\ resp[p].body = Nil /\ resp[p].err # ""
                 /\ calls[p].listNodegroups[1].err = "" =>
                      resp[p].err = ERR_NODEGROUP_EXIST
    /\ \A key \in ClusterKeys :
         Cardinality(NamesOf(nodegroups[key])) = Len(nodegroups[key])

\* C4: an AddNode that found no node group has ensured the node-group role by
\* the time it issues the create-node-group call: a role that was absent has
\* been created and each of the three managed policies attached exactly once,
\* in order; a role that existed is reused without any attachment call.
\* Policies are attached only by the request that created the role.
C4_RoleEnsuredBeforeCreate ==
    \A p \in Procs :
        /\ ( /\ ClusterPath(p)
             /\ pc[p] = "AN_CreateNodegroup" \/ calls[p].createNodegroup # << >> )
           => /\ Len(calls[p].getRole) = 1
              /\ iam.exists
              /\ loc[p].newNodeGroupInput # Nil
              /\ loc[p].newNodeGroupInput[1].nodeRole = NodeRoleArn
              /\ IF calls[p].getRole[1] = "NoSuchEntity"
                   THEN /\ calls[p].createRole = <<"">>
                        /\ calls[p].attachPolicy =
                             [i \in 1..3 |-> [policy |-> NodeGroupPolicies[i], err |-> ""]]
                        /\ Range(NodeGroupPolicies) \subseteq iam.attached
                   ELSE /\ calls[p].getRole[1] = ""
                        /\ calls[p].createRole = << >>
                        /\ calls[p].attachPolicy = << >>
        /\ calls[p].attachPolicy # << >> => calls[p].createRole = <<"">>

\* C4 witness: one request created the role, attached the three policies and
\* issued the create; another found the role, attached nothing and issued the
\* create.
C4_Witness ==
    \E p \in Procs, q \in Procs :
        /\ ClusterPath(p) /\ ClusterPath(q)
        /\ calls[p].createRole = <<"">>
        /\ Len(calls[p].attachPolicy) = 3
        /\ calls[p].createNodegroup # << >>
        /\ calls[q].getRole = <<"">>
        /\ calls[q].attachPolicy = << >>
        /\ calls[q].createNodegroup # << >>
        /\ HasResponse(q)

\* C5: label-merge law.  In every create-node-group input AddNode sends, each
\* caller label key maps to the caller's value, each donor label key the
\* caller did not supply maps to the donor's value, and the system label keys
\* are present.
C5_LabelMergeLaw ==
    \A p \in Procs :
        IsAddNode(p) =>
            \A input \in CreateInputs(p) :
                LET caller == req[p].nodeSpec.labels
                    donor == IF loc[p].defaultNode = Nil THEN [k \in {} |-> ""]
                             ELSE loc[p].defaultNode[1].labels
                IN /\ \A k \in DOMAIN caller : input.labels[k] = caller[k]
                   /\ \A k \in (DOMAIN donor) \ (DOMAIN caller) :
                        input.labels[k] = donor[k]
                   /\ SystemLabelKeys \subseteq DOMAIN input.labels

\* C6: a GetClusters in which the detail call of a node group failed still
\* returns a successful response with every listed cluster, in which only the
\* node groups whose detail call failed are missing.
C6_PartialListing ==
    \A p \in Procs :
        ( /\ req[p].op = "GetClusters"
          /\ Done(p)
          /\ \E i \in DOMAIN calls[p].describeNodegroup :
                calls[p].describeNodegroup[i].err # "" )
        => /\ HasResponse(p)
           /\ resp[p].err = ""
           /\ [i \in DOMAIN resp[p].body[1].clusters |-> resp[p].body[1].clusters[i].name]
                = calls[p].listClusters[1].listing
           /\ \A i \in DOMAIN calls[p].describeNodegroup :
                LET d == calls[p].describeNodegroup[i]
                    listedAs == \E c \in Range(resp[p].body[1].clusters) :
                                   /\ c.name = d.cluster
                                   /\ \E n \in Range(c.nodeSpec) : n.name = d.name
                IN listedAs <=> d.err = ""

\* C8: when the role lookup, the role creation or one of the policy
\* attachments fails in an AddNode that found no node group, the request
\* returns that error without a response, issues no create-node-group call,
\* and a role it created stays, with exactly the policies attached so far.
C8_RoleFailureAborts ==
    \A p \in Procs :
        (ClusterPath(p) /\ RoleStepFailed(p)) =>
            /\ Done(p)
            /\ resp[p].kind = "return" /\ resp[p].body = Nil
            /\ resp[p].err = loc[p].err /\ resp[p].err # ""
            /\ calls[p].createNodegroup = << >>
            /\ \A i \in DOMAIN calls[p].attachPolicy :
                 /\ calls[p].attachPolicy[i].policy = NodeGroupPolicies[i]
                 /\ calls[p].attachPolicy[i].err # "" => i = Len(calls[p].attachPolicy)
            /\ calls[p].createRole = <<"">> =>
                 /\ iam.exists
                 /\ iam.attached = AttachedBy(p)

\* C8 witness: the role was created, the first policy attached, the second
\* attachment failed; the request ended with the error, the role keeps the one
\* policy and no node group was asked for.
C8_Witness ==
    \E p \in Procs :
        /\ ClusterPath(p)
        /\ calls[p].createRole = <<"">>
        /\ Len(calls[p].attachPolicy) = 2
        /\ calls[p].attachPolicy[1].err = ""
        /\ calls[p].attachPolicy[2].err # ""
        /\ Done(p) /\ resp[p].err # ""
        /\ iam.exists /\ iam.attached = {EKS_WORKER_NODE_POLICY_ARN}
        /\ calls[p].createNodegroup = << >>
        /\ nodegroups[NodeCluster] = << >>

------------------------------------------------------------------------------
(* Claims about the node-group configuration AddNode builds *)

\* AddNode found node groups, none of them with the requested name.
DonorPath(p) ==
    /\ IsAddNode(p)
    /\ Listed(p)
    /\ calls[p].listNodegroups[1].err = ""
    /\ calls[p].listNodegroups[1].listing # << >>
    /\ ~NameTaken(calls[p].listNodegroups[1].listing, req[p].nodeSpec.name)

\* C11: an AddNode that found node groups, none with the requested name, uses
\* the first node group of the listing as donor: every create-node-group
\* request it sends carries the donor's AMI type, capacity type, role, subnets
\* and release version, and the node spec's disk size, instance type, name and
\* labels; it looks up or creates no role and attaches no policy.
C11_DonorCopied ==
    \A p \in Procs :
        DonorPath(p) =>
            /\ calls[p].getRole = << >>
            /\ calls[p].createRole = << >>
            /\ calls[p].attachPolicy = << >>
            /\ \A input \in CreateInputs(p) :
                 /\ loc[p].defaultNode # Nil
                 /\ LET donor == loc[p].defaultNode[1]
                        nodeSpec == req[p].nodeSpec
                    IN /\ donor.name = calls[p].listNodegroups[1].listing[1]
                       /\ input.amiType = donor.amiType
                       /\ input.capacityType = donor.capacityType
                       /\ input.nodeRole = donor.nodeRole
                       /\ input.subnets = donor.subnets
                       /\ input.releaseVersion = donor.releaseVersion
                       /\ input.diskSize = nodeSpec.diskSize
                       /\ input.instanceTypes = <<nodeSpec.instance>>
                       /\ input.nodegroupName = nodeSpec.name
                       /\ \A k \in DOMAIN nodeSpec.labels :
                            input.labels[k] = nodeSpec.labels[k]

\* C12 as stated: in every create-node-group request of AddNode the AMI type
\* is the GPU image when nodeSpec.gpuEnabled and the standard image otherwise.
C12_AmiFollowsGpuEverywhere ==
    \A p \in Procs :
        IsAddNode(p) =>
            \A input \in CreateInputs(p) :
                input.amiType = IF req[p].nodeSpec.gpuEnabled THEN "AL2_x86_64_GPU"
                                ELSE "AL2_x86_64"

\* C12 (amended): in every create-node-group request of an AddNode that found
\* no node group the AMI type is the GPU image when nodeSpec.gpuEnabled and
\* the standard image otherwise; an AddNode that found a donor sends the
\* donor's AMI type, whatever nodeSpec.gpuEnabled is.
C12_AmiFollowsGpuOnClusterPath ==
    \A p \in Procs :
        /\ ClusterPath(p) =>
             \A input \in CreateInputs(p) :
                 input.amiType = IF req[p].nodeSpec.gpuEnabled THEN "AL2_x86_64_GPU"
                                 ELSE "AL2_x86_64"
        /\ DonorPath(p) =>
             \A input \in CreateInputs(p) :
                 /\ loc[p].defaultNode # Nil
                 /\ input.amiType = loc[p].defaultNode[1].amiType

\* C12 witness: a GPU node spec on a cluster without node groups was sent with
\* the GPU image, and the node group exists.
C12_Witness ==
    \E p \in Procs :
        /\ ClusterPath(p)
        /\ req[p].nodeSpec.gpuEnabled
        /\ HasResponse(p)
        /\ \E input \in CreateInputs(p) : input.amiType = "AL2_x86_64_GPU"
        /\ \E i \in DOMAIN nodegroups[NodeCluster] :
              /\ nodegroups[NodeCluster][i].name = req[p].nodeSpec.name
              /\ nodegroups[NodeCluster][i].amiType = "AL2_x86_64_GPU"

\* C18: every create-node-group request AddNode sends, built from the cluster
\* or from a donor, has scaling desired = 1, min = 1, max = 1.
C18_ScalingFixed ==
    \A p \in Procs :
        IsAddNode(p) =>
            \A input \in CreateInputs(p) :
                /\ ClusterPath(p) \/ DonorPath(p)
                /\ input.scaling.desired = 1
                /\ input.scaling.min = 1
                /\ input.scaling.max = 1

\* C18 witness: a request built from a donor whose scaling is 3/1/5 was sent
\* with 1/1/1 and the node group was created.
C18_Witness ==
    \E p \in Procs :
        /\ DonorPath(p)
        /\ HasResponse(p)
        /\ loc[p].defaultNode # Nil
        /\ loc[p].defaultNode[1].scaling = [desired |-> 3, min |-> 1, max |-> 5]
        /\ \E input \in CreateInputs(p) :
              input.scaling = [desired |-> 1, min |-> 1, max |-> 1]

------------------------------------------------------------------------------
(* Claims about DeleteCluster and DeleteNode *)

IsDelete(p) == req[p].op \in {"DeleteCluster", "DeleteNode"}

\* The vendor delete calls a request made, of the kind its operation makes.
DeleteCalls(p) ==
    IF req[p].op = "DeleteCluster" THEN calls[p].deleteCluster
    ELSE calls[p].deleteNodegroup

\* C17: a DeleteCluster or DeleteNode request whose session opened issues
\* exactly one vendor delete call, of its own kind and for its own target, and
\* no other vendor call before or after it (no describe, no listing, no
\* polling, no retry); it returns as soon as the call has; when the call
\* failed, the response carries the error message in its error field together
\* with the error, and when it succeeded both are empty.
C17_SingleDeleteCall ==
    \A p \in Procs :
        IsDelete(p) =>
            /\ calls[p] = [NoCalls EXCEPT
                             !.deleteCluster = calls[p].deleteCluster,
                             !.deleteNodegroup = calls[p].deleteNodegroup]
            /\ req[p].op = "DeleteCluster" =>
                 /\ calls[p].deleteNodegroup = << >>
                 /\ calls[p].deleteCluster \in {<< >>, <<req[p].clusterName>>}
            /\ req[p].op = "DeleteNode" =>
                 /\ calls[p].deleteCluster = << >>
                 /\ calls[p].deleteNodegroup \in {<< >>, <<req[p].nodeSpec.name>>}
            /\ DeleteCalls(p) # << >> => Done(p)
            /\ Done(p) =>
                 /\ resp[p].kind = "return"
                 /\ IF resp[p] = Return(Nil, ErrSession)
                      THEN DeleteCalls(p) = << >>
                      ELSE /\ Len(DeleteCalls(p)) = 1
                           /\ resp[p].body # Nil
                           /\ resp[p].body[1].error = resp[p].err

\* C17 witness: a DeleteCluster and a DeleteNode have each made their one
\* call, the vendor refused both, and both responses carry the error.
C17_Witness ==
    \E p \in Procs, q \in Procs :
        /\ req[p].op = "DeleteCluster" /\ req[q].op = "DeleteNode"
        /\ Len(calls[p].deleteCluster) = 1 /\ Len(calls[q].deleteNodegroup) = 1
        /\ HasResponse(p) /\ HasResponse(q)
        /\ resp[p].err # "" /\ resp[p].body[1].error = resp[p].err
        /\ resp[q].err # "" /\ resp[q].body[1].error = resp[q].err

------------------------------------------------------------------------------
(* Claims about the dispatcher and ClusterStatus *)

KnownProviders == {"aws", "azure", "gcp"}

\* C13: a ClusterStatus request that has returned an error has returned,
\* alongside, a response whose error field is that error; one that has
\* returned no error has returned the vendor's status string; it has made at
\* most one describe call.
C13_StatusDualSignal ==
    \A p \in Procs :
        (req[p].op = "ClusterStatus" /\ req[p].provider = "aws" /\ Done(p)) =>
            /\ resp[p].kind = "return"
            /\ Len(calls[p].describeCluster) <= 1
            /\ IF resp[p].err # ""
                 THEN /\ resp[p].body # Nil
                      /\ resp[p].body[1].error = resp[p].err
                 ELSE /\ resp[p].body # Nil
                      /\ Len(calls[p].describeCluster) = 1
                      /\ resp[p].body[1].status = calls[p].describeCluster[1].status
                      /\ resp[p].body[1].status \in ClusterStatuses

\* C14: a dispatched operation with a provider other than aws, azure, gcp
\* ends with the ProviderNotFound message carrying the provider string, no
\* response and no controller invoked (nor any vendor call made); with a
\* recognised provider the request is forwarded exactly once, to that
\* provider's controller, and what the controller returns is returned as is.
C14_Dispatch ==
    \A p \in Procs :
        pc[p] # "idle" =>
            IF req[p].provider \in KnownProviders
              THEN /\ calls[p].controller =
                        <<[controller |-> req[p].provider, op |-> req[p].op]>>
                   /\ Done(p) => resp[p] = loc[p].result
              ELSE /\ Done(p)
                   /\ resp[p] = Return(Nil,
                        "provider not found, must be one of ['aws', 'azure'], got "
                            \o req[p].provider)
                   /\ calls[p] = NoCalls

\* C14 witness: one request with an unknown provider was refused, and one for
\* gcp was forwarded and its controller's response with an error came back.
C14_Witness ==
    \E p \in Procs, q \in Procs :
        /\ req[p].provider = "digitalocean" /\ req[p].op = req[q].op
        /\ Done(p) /\ resp[p].body = Nil /\ resp[p].err # ""
        /\ req[q].provider = "gcp"
        /\ Done(q) /\ HasResponse(q) /\ resp[q].err = "controller error"
        /\ calls[q].controller = <<[controller |-> "gcp", op |-> req[q].op]>>

------------------------------------------------------------------------------
(* Claims about the credential store *)

CredKeyOf(p) == <<SecretHostRegion, req[p].account, req[p].provider>>

\* The successful writes to the key of request r that came before r.
WritesBefore(r) ==
    {w \in Procs : /\ w < r
                   /\ req[w].op = "WriteCredential"
                   /\ Done(w) /\ resp[w].err = ""
                   /\ CredKeyOf(w) = CredKeyOf(r)}

LastOf(S) == CHOOSE w \in S : \A v \in S : v <= w

\* The payload variant of a write does not fit its provider tag, or the
\* provider is neither aws nor azure.
Mismatched(r) ==
    \/ r.provider \notin {"aws", "azure"}
    \/ r.cred = Nil
    \/ r.cred[1].kind # r.provider

C16_MismatchRejected ==
    [][\A p \in Procs :
         ( /\ pc[p] = "idle" /\ pc'[p] # "idle"
           /\ req'[p].op = "WriteCredential"
           /\ Mismatched(req'[p]) )
         => /\ secrets' = secrets
            /\ pc'[p] = "done"
            /\ resp'[p].kind = "return"
            /\ resp'[p].body = Nil
            /\ resp'[p].err # ""
            /\ calls'[p].writeCredentials = << >>]_vars

\* C16 witness: a write with the aws tag and an Azure payload was refused
\* while the store holds an earlier aws credential of the same account.
C16_Witness ==
    \E p \in Procs :
        /\ req[p].op = "WriteCredential"
        /\ req[p].provider = "aws"
        /\ req[p].cred # Nil /\ req[p].cred[1].kind = "azure"
        /\ Done(p) /\ resp[p].body = Nil /\ resp[p].err # ""
        /\ secrets[<<SecretHostRegion, req[p].account, "aws">>] # Nil

------------------------------------------------------------------------------
(* Claims about GetCluster *)

IsGetCluster(p) == req[p].op = "GetCluster"

\* The vendor reports the node as ready: its condition of type Ready is True.
ReportedReady(node) ==
    \E i \in DOMAIN node.conditions :
        /\ node.conditions[i].type = "Ready"
        /\ node.conditions[i].status = "True"

\* C19: the response of GetCluster has one NodeSpec per node the Kubernetes
\* API listed, in the same order and under the node's name, and the state of
\* a NodeSpec is "active" if and only if the node is reported ready, and
\* "inactive" otherwise.
C19_NodeStates ==
    \A p \in Procs :
        (IsGetCluster(p) /\ HasResponse(p)) =>
            LET items == calls[p].listNodes[1].items
                specs == resp[p].body[1].nodeSpec
            IN /\ Len(specs) = Len(items)
               /\ \A i \in DOMAIN items :
                    /\ specs[i].name = items[i].name
                    /\ specs[i].state \in {"active", "inactive"}
                    /\ specs[i].state = "active" <=> ReportedReady(items[i])

\* C20: a GetCluster for which the Kubernetes client could not be built (the
\* cluster has no control-plane endpoint yet) returns that error and no
\* cluster spec, and lists no nodes.
C20_UnreachableFails ==
    \A p \in Procs :
        ( /\ IsGetCluster(p)
          /\ calls[p].getK8sClient # << >>
          /\ calls[p].getK8sClient[1] # "" )
        => /\ Done(p)
           /\ resp[p] = Return(Nil, calls[p].getK8sClient[1])
           /\ calls[p].listNodes = << >>
           /\ Len(calls[p].getK8sClient) = 1

\* C20 witness: the cluster was being created when GetCluster described it,
\* the client could not be built and the request ended with the error.
C20_Witness ==
    \E p \in Procs :
        /\ IsGetCluster(p)
        /\ calls[p].describeCluster # << >>
        /\ calls[p].describeCluster[1].status = "CREATING"
        /\ calls[p].getK8sClient = <<ErrClusterUnreachable>>
        /\ Done(p) /\ resp[p].body = Nil /\ resp[p].err = ErrClusterUnreachable
        /\ calls[p].listNodes = << >>

------------------------------------------------------------------------------
(* Claims about AddNode: error propagation, role policies, races *)

\* The vendor error of the listing or of the donor's describe call, "" when
\* neither failed.
LookupError(p) ==
    IF Listed(p) /\ calls[p].listNodegroups[1].err # ""
      THEN calls[p].listNodegroups[1].err
    ELSE IF calls[p].describeNodegroup # << >>
      THEN calls[p].describeNodegroup[1].err
      ELSE ""

\* C21: an AddNode whose node-group listing or donor describe call failed
\* with a vendor error issues no create-node-group call and returns that
\* error.
C21_LookupErrorPropagates ==
    \A p \in Procs :
        (IsAddNode(p) /\ LookupError(p) # "") =>
            /\ calls[p].createNodegroup = << >>
            /\ Done(p) => resp[p] = Return(Nil, LookupError(p))

\* C22: a create-node-group request built from the cluster is issued only
\* when the node-group role has the three managed policies attached.
C22_PoliciesAttachedBeforeCreate ==
    \A p \in Procs :
        (ClusterPath(p) /\ CreateInputs(p) # {}) =>
            /\ iam.exists
            /\ Range(NodeGroupPolicies) \subseteq iam.attached

\* C23: when node group B is built from donor A, A was created by AddNode on
\* the empty cluster, and the caller gave no labels, the labels node-name,
\* node-label-selector and instance-type of B's create request are B's own
\* name and instance type.
C23_SystemLabelsOwn ==
    \A a \in Procs, b \in Procs :
        ( /\ ClusterPath(a) /\ HasResponse(a)
          /\ DonorPath(b)
          /\ DOMAIN req[b].nodeSpec.labels = {}
          /\ loc[b].defaultNode # Nil
          /\ loc[b].defaultNode[1].name = req[a].nodeSpec.name )
        => \A input \in CreateInputs(b) :
              /\ input.labels[NODE_NAME_LABEL] = req[b].nodeSpec.name
              /\ input.labels[NODE_LABEL_SELECTOR_LABEL] = req[b].nodeSpec.name
              /\ input.labels[INSTANCE_LABEL] = req[b].nodeSpec.instance

\* C24 as stated: of two AddNode requests for the same cluster and node-group
\* name that run concurrently, at most one issues a create-node-group request.
C24_AtMostOneCreateNodegroup ==
    \A p \in Procs, q \in Procs :
        ( /\ p # q
          /\ IsAddNode(p) /\ IsAddNode(q)
          /\ req[p].clusterName = req[q].clusterName
          /\ req[p].nodeSpec.name = req[q].nodeSpec.name
          /\ Concurrent(p, q) )
        => ~(CreateInputs(p) # {} /\ CreateInputs(q) # {})

\* C24 (amended): every AddNode request issues at most one create-node-group
\* call, and none when its own listing shows the requested name; concurrent
\* requests for one name may each issue a call, and the node-group names of a
\* cluster stay unique.
C24_CreateOnlyIfNameNotListed ==
    /\ \A p \in Procs :
         IsAddNode(p) =>
             /\ Len(calls[p].createNodegroup) <= 1
             /\ ( /\ Listed(p)
                  /\ calls[p].listNodegroups[1].err = ""
                  /\ req[p].nodeSpec.name \in Range(calls[p].listNodegroups[1].listing) )
                => calls[p].createNodegroup = << >>
    /\ \A key \in ClusterKeys :
         Cardinality(NamesOf(nodegroups[key])) = Len(nodegroups[key])

\* C24 witness: two concurrent requests for one name have both issued a
\* create-node-group request; the vendor accepted one and refused the other,
\* and the cluster has one node group of that name.
C24_Witness ==
    \E p \in Procs, q \in Procs :
        /\ p # q
        /\ IsAddNode(p) /\ IsAddNode(q)
        /\ req[p].nodeSpec.name = req[q].nodeSpec.name
        /\ Concurrent(p, q)
        /\ CreateInputs(p) # {} /\ CreateInputs(q) # {}
        /\ HasResponse(p)
        /\ Done(q) /\ resp[q].body = Nil /\ resp[q].err # ""
        /\ Cardinality({i \in DOMAIN nodegroups[NodeCluster] :
                          nodegroups[NodeCluster][i].name = req[p].nodeSpec.name}) = 1

------------------------------------------------------------------------------
(* Claims about the read-only requests and GetToken *)

ReadOps == {"GetCluster", "GetClusters", "ClusterStatus", "GetToken"}

\* The vendor create, delete and IAM calls a request has issued.
ChangingCalls(p) ==
    Len(calls[p].createCluster) + Len(calls[p].deleteCluster)
    + Len(calls[p].createNodegroup) + Len(calls[p].deleteNodegroup)
    + Len(calls[p].getRole) + Len(calls[p].createRole) + Len(calls[p].attachPolicy)

\* The part of the state a request owns changes in this step.
Steps(p) == <<pc[p], loc[p], resp[p], calls[p]>>' # <<pc[p], loc[p], resp[p], calls[p]>>

\* C25: every step of a GetCluster, GetClusters, ClusterStatus or GetToken
\* request, in any interleaving with other requests, leaves the clusters, the
\* node groups, the role and its attached policies unchanged, and the request
\* has issued no vendor create, delete or IAM call.
C25_ReadOnlyRequests ==
    [][\A p \in Procs :
          (req'[p].op \in ReadOps /\ Steps(p)) =>
              /\ UNCHANGED <<clusters, nodegroups, iam>>
              /\ ChangingCalls(p)' = 0]_vars

\* C25 witness: a read-only request has been answered while a DeleteCluster
\* request that was in flight with it had its cluster deleted by the vendor.
C25_Witness ==
    \E p \in Procs, q \in Procs :
        /\ req[p].op \in ReadOps
        /\ HasResponse(p)
        /\ req[q].op = "DeleteCluster"
        /\ Concurrent(p, q)
        /\ Done(q)
        /\ StatusOf(PreExistingKey) \in {"DELETING", "NotFound"}

\* C26: when the describe call of GetToken failed, GetToken derives no kube
\* configuration and returns a non-nil error; a response with token, CA data
\* and endpoint is returned only after a describe call that succeeded.
C26_TokenOnlyAfterDescribe ==
    \A p \in Procs :
        (req[p].op = "GetToken" /\ Described(p)) =>
            /\ DescribeErr(p) # "" =>
                  /\ calls[p].getKubeConfig = << >>
                  /\ Done(p) => (resp[p].kind = "return" /\ resp[p].err # "")
            /\ HasResponse(p) => DescribeErr(p) = ""

====
